---- MODULE Spec2Model ----
(***************************************************************************)
(* Hotel central air-conditioning core: the scheduler of                   *)
(* backend/application/scheduler.py, the billing engine of                 *)
(* backend/application/billing_service.py, the timer registry of           *)
(* backend/application/time_manager.py and the use-case services and       *)
(* endpoints that drive them, over the repository (queues are dicts keyed  *)
(* by room_id, kept here as sequences in insertion order; get_room hands   *)
(* out a copy of the stored room, save_room stores it).                    *)
(*                                                                         *)
(* Units.  Temperatures are integers, one unit being the idle drift of one *)
(* tick.  Fees are integers, one unit being 1/360 of the price unit, so    *)
(* that the per-tick increments (rate_per_min / 60) * price_per_unit of    *)
(* the three rates 1, 1/2 and 1/3 are the integers 6, 3 and 2.  Wall-clock *)
(* instants (datetime.utcnow()) are integers; None is NoTime.              *)
(***************************************************************************)
EXTENDS Integers, Sequences, FiniteSets, TLC

\* ---------------------------------------------------------------- bounds
NumRooms == 3
MaxConcurrent == 2
time_slice_seconds == 1
MaxSeconds == 2
MaxToken == 1
MaxNow == 2
MaxRecords == 2
MaxBills == 2
MaxStays == 2
MaxTimers == 4
MaxPersisted == 1
MaxQueue == 2
MaxEvents == 4

Rooms == 1..NumRooms
Speeds == {"HIGH", "MID", "LOW"}
NoTime == -1
NoRoom == 0
NoTemp == -1

\* --------------------------------------------------------- configuration
\* temperature section of the configuration, in model units
temperature ==
    [default_target |-> 0, mid_delta |-> 2, high_delta |-> 3, low_delta |-> 1,
     idle_drift |-> 1, auto_restart_threshold |-> 2, min_temp |-> 0, max_temp |-> 2,
     cool_range |-> <<0, 1>>, heat_range |-> <<1, 2>>]

Temps == temperature.min_temp .. temperature.max_temp

\* throttle section: change_temp_ms, in clock units
throttle == [change_temp |-> 2]

\* ------------------------------------------------------------- helpers
SPEED_PRIORITY(speed) ==
    CASE speed = "HIGH" -> 3
      [] speed = "MID" -> 2
      [] speed = "LOW" -> 1
      [] OTHER -> 0

compare_speed(speed_a, speed_b) ==
    IF SPEED_PRIORITY(speed_a) > SPEED_PRIORITY(speed_b) THEN 1
    ELSE IF SPEED_PRIORITY(speed_a) < SPEED_PRIORITY(speed_b) THEN -1
    ELSE 0

Abs(x) == IF x < 0 THEN -x ELSE x

\* position of room_id in a dict kept as a sequence, 0 when absent
IndexOf(q, room_id) ==
    IF \E i \in 1..Len(q) : q[i].room_id = room_id
    THEN CHOOSE i \in 1..Len(q) : q[i].room_id = room_id
    ELSE 0

Has(q, room_id) == IndexOf(q, room_id) # 0

RoomIds(q) == {q[i].room_id : i \in 1..Len(q)}

\* d[obj.room_id] = obj : an existing key keeps its position, a new one is last
DictPut(q, obj) ==
    IF Has(q, obj.room_id)
    THEN [q EXCEPT ![IndexOf(q, obj.room_id)] = obj]
    ELSE Append(q, obj)

\* d.pop(room_id, None)
DictPop(q, room_id) == SelectSeq(q, LAMBDA o : o.room_id # room_id)

\* ServiceObject(room_id=room_id, speed=speed) with the dataclass defaults
ServiceObject(room_id, speed) ==
    [room_id |-> room_id, speed |-> speed, served_seconds |-> 0,
     wait_seconds |-> 0, total_waited_seconds |-> 0, priority_token |-> 0,
     time_slice_enforced |-> FALSE]

\* max(items, key=served_seconds): Python's max keeps the first maximum
MaxServedIndex(items) ==
    CHOOSE i \in 1..Len(items) :
        /\ \A j \in 1..Len(items) : items[j].served_seconds <= items[i].served_seconds
        /\ \A j \in 1..(i - 1) : items[j].served_seconds < items[i].served_seconds

\* a victim rule that takes the first slower object, whatever its priority
select_first_slower(services, new_speed) ==
    LET slower_items == SelectSeq(services, LAMBDA o : compare_speed(o.speed, new_speed) < 0)
    IN  IF Len(slower_items) = 0 THEN NoRoom ELSE slower_items[1].room_id

\* room_id of the victim, NoRoom for None
select_victim_by_rules(services, new_speed) ==
    LET slower_items == SelectSeq(services, LAMBDA o : compare_speed(o.speed, new_speed) < 0)
        distinct_speeds == {slower_items[i].speed : i \in 1..Len(slower_items)}
        min_priority == CHOOSE m \in {SPEED_PRIORITY(s) : s \in distinct_speeds} :
                            \A s \in distinct_speeds : m <= SPEED_PRIORITY(s)
        candidates == SelectSeq(slower_items, LAMBDA o : SPEED_PRIORITY(o.speed) = min_priority)
    IN  IF Len(slower_items) = 0 THEN NoRoom
        ELSE IF Len(slower_items) = 1 THEN slower_items[1].room_id
        ELSE IF Cardinality(distinct_speeds) = 1
             THEN slower_items[MaxServedIndex(slower_items)].room_id
        ELSE candidates[MaxServedIndex(candidates)].room_id

\* the key of _pop_highest_priority, compared as Python compares tuples
priority_key(obj) == <<SPEED_PRIORITY(obj.speed), obj.priority_token, obj.total_waited_seconds>>

TupleLess(a, b) ==
    \/ a[1] < b[1]
    \/ a[1] = b[1] /\ a[2] < b[2]
    \/ a[1] = b[1] /\ a[2] = b[2] /\ a[3] < b[3]

\* a choice that takes the entry at the head of the dict
_pop_first(entries) == 1

\* index of max(entries, key=priority_key), the first maximum
_pop_highest_priority(entries) ==
    CHOOSE i \in 1..Len(entries) :
        /\ \A j \in 1..Len(entries) : ~TupleLess(priority_key(entries[i]), priority_key(entries[j]))
        /\ \A j \in 1..(i - 1) : TupleLess(priority_key(entries[j]), priority_key(entries[i]))

\* index of max(services, key=served_seconds), 0 for None
_longest_served(services) ==
    IF Len(services) = 0 THEN 0 ELSE MaxServedIndex(services)

\* --------------------------------------------------- TimeManager: timers
\* The TimeManager is the record tm:
\*   attached (the services hold a TimeManager), fee_callback (_fee_callback is
\*   bound, to BillingService.tick_fee), timers (_timers, in insertion order;
\*   timer ids are 1, 2, ... in creation order, 0 is no timer), room_to_timer
\*   (_room_to_timer), next_id, tick_counter (_tick_counter), tick_interval
\*   (_tick_interval, in hundredths of a second), detail_timers
\*   (BillingService._detail_timers), published (the events the latest tick
\*   has put on the event bus).
TimerTypes == {"SERVICE", "WAIT", "DETAIL", "ACCOMMODATION"}

TimerState(timer_id, timer_type, room_id, speed, remaining_seconds, time_slice_enforced) ==
    [timer_id |-> timer_id, timer_type |-> timer_type, room_id |-> room_id,
     speed |-> speed, elapsed_seconds |-> 0, remaining_seconds |-> remaining_seconds,
     current_fee |-> 0, time_slice_enforced |-> time_slice_enforced]

\* position of timer_id in _timers, 0 when absent
TimerIndex(timers, timer_id) ==
    IF \E i \in 1..Len(timers) : timers[i].timer_id = timer_id
    THEN CHOOSE i \in 1..Len(timers) : timers[i].timer_id = timer_id
    ELSE 0

has_timer(tm, timer_id) == TimerIndex(tm.timers, timer_id) # 0

\* _timers.pop(timer_id, None)
PopTimer(timers, timer_id) == SelectSeq(timers, LAMBDA t : t.timer_id # timer_id)

_remove_timer_by_room(tm, room_id, timer_type) ==
    IF tm.room_to_timer[room_id][timer_type] = 0 THEN tm
    ELSE [tm EXCEPT !.timers = PopTimer(@, tm.room_to_timer[room_id][timer_type]),
                    !.room_to_timer[room_id][timer_type] = 0]

\* _timers[handle.timer_id] = state; _set_room_timer(...)
AddTimer(tm, state) ==
    [tm EXCEPT !.timers = Append(@, state),
               !.room_to_timer[state.room_id][state.timer_type] = state.timer_id,
               !.next_id = @ + 1]

create_service_timer(tm, room_id, speed) ==
    LET Create(t) == AddTimer(t, TimerState(t.next_id, "SERVICE", room_id, speed, 0, FALSE))
    IN  Create(_remove_timer_by_room(tm, room_id, "SERVICE"))

create_wait_timer(tm, room_id, speed, wait_seconds, time_slice_enforced) ==
    LET Create(t) == AddTimer(t, TimerState(t.next_id, "WAIT", room_id, speed,
                                            wait_seconds, time_slice_enforced))
    IN  Create(_remove_timer_by_room(tm, room_id, "WAIT"))

\* the earlier DETAIL timer of the room, if any, is left in _timers
create_detail_timer(tm, room_id, speed) ==
    AddTimer(tm, TimerState(tm.next_id, "DETAIL", room_id, speed, 0, FALSE))

create_accommodation_timer(tm, room_id) ==
    LET Create(t) == AddTimer(t, TimerState(t.next_id, "ACCOMMODATION", room_id, "", 0, FALSE))
    IN  Create(_remove_timer_by_room(tm, room_id, "ACCOMMODATION"))

\* the index of the room and type of the timer is cleared whatever it points to
cancel_timer(tm, timer_id) ==
    IF ~has_timer(tm, timer_id) THEN tm
    ELSE LET state == tm.timers[TimerIndex(tm.timers, timer_id)]
         IN  [tm EXCEPT !.timers = PopTimer(@, timer_id),
                        !.room_to_timer[state.room_id][state.timer_type] = 0]

\* _timers[timer_id] = state: a timer of that id is replaced where it stands
PutTimer(timers, state) ==
    IF TimerIndex(timers, state.timer_id) # 0
    THEN [timers EXCEPT ![TimerIndex(timers, state.timer_id)] = state]
    ELSE Append(timers, state)

\* the timer the room has of that type, if any, is left in _timers
restore_timer(tm, timer_id, timer_type, room_id, speed, elapsed_seconds, remaining_seconds, current_fee, time_slice_enforced) ==
    [tm EXCEPT !.timers =
                   PutTimer(@, [timer_id |-> timer_id, timer_type |-> timer_type,
                                room_id |-> room_id, speed |-> speed,
                                elapsed_seconds |-> elapsed_seconds,
                                remaining_seconds |-> remaining_seconds,
                                current_fee |-> current_fee,
                                time_slice_enforced |-> time_slice_enforced]),
               !.room_to_timer[room_id][timer_type] = timer_id]

\* ------------------------------------------------------- billing engine
\* A state of the program is passed through the handlers as a record st:
\*   rooms, services (ServiceQueue), waits (WaitingQueue), details (the
\*   ACDetailRecords of each room in creation order), current
\*   (BillingService.current_records, an index into the room's details, 0 when
\*   absent), orders and bills (the accommodation orders and ACBills of each
\*   room), billing (is a BillingService
\*   attached to the scheduler), max_concurrent (scheduling.max_concurrent of
\*   the configuration), now (the wall clock), stay (number of
\*   check-ins of each room so far), ev (what the handlers did, see Event).

Event(type, room, speed, path, victim, before, after) ==
    [type |-> type, room |-> room, speed |-> speed, path |-> path, victim |-> victim,
     preS |-> before.services, preW |-> before.waits,
     postS |-> after.services, postW |-> after.waits]

Log(st, e) == [st EXCEPT !.ev = Append(@, e)]

_rate_for_speed(speed) ==
    CASE speed = "HIGH" -> 6
      [] speed = "MID" -> 3
      [] speed = "LOW" -> 2
      [] OTHER -> 3

price_per_unit == 1

\* repository.get_active_detail_record: the latest open record of the room
get_active_detail_record(details, room_id) ==
    LET open == {i \in 1..Len(details[room_id]) : details[room_id][i].ended_at = NoTime}
    IN  IF open = {} THEN 0 ELSE CHOOSE i \in open : \A j \in open : j <= i

\* a close that leaves the record open
close_nothing(st, room_id, timestamp) == st

close_current_detail_record(st, room_id, timestamp) ==
    LET record == IF st.current[room_id] # 0 THEN st.current[room_id]
                  ELSE get_active_detail_record(st.details, room_id)
        timer_handle == st.tm.detail_timers[room_id]
        is_valid == timer_handle # 0 /\ has_timer(st.tm, timer_handle)
    IN  IF record = 0 \/ st.details[room_id][record].ended_at # NoTime THEN st
        ELSE [st EXCEPT !.details[room_id][record].fee_value =
                            IF is_valid
                            THEN st.tm.timers[TimerIndex(st.tm.timers, timer_handle)].current_fee
                            ELSE @,
                        !.details[room_id][record].ended_at = timestamp,
                        !.details[room_id][record].tick_closed = st.tm.tick_counter,
                        !.current[room_id] = 0,
                        !.tm = IF is_valid
                               THEN cancel_timer([@ EXCEPT !.detail_timers[room_id] = 0],
                                                 timer_handle)
                               ELSE [@ EXCEPT !.detail_timers[room_id] = 0]]

\* time_manager.create_detail_timer and _detail_timers[room_id] = timer_handle
AttachDetailTimer(tm, room_id, speed) ==
    IF ~tm.attached THEN tm
    ELSE [create_detail_timer(tm, room_id, speed) EXCEPT !.detail_timers[room_id] = tm.next_id]

\* the record also notes the stay it is made in and the tick_counter at which
\* it is opened and closed
start_new_detail_record(st, room_id, speed, timestamp) ==
    LET s1 == close_current_detail_record(st, room_id, timestamp)
        record == [room_id |-> room_id, speed |-> speed, started_at |-> timestamp,
                   ended_at |-> NoTime, rate_per_min |-> _rate_for_speed(speed),
                   fee_value |-> 0, stay |-> st.stay[room_id],
                   tick_opened |-> st.tm.tick_counter, tick_closed |-> NoTime]
    IN  [s1 EXCEPT !.details[room_id] = Append(@, record),
                   !.current[room_id] = Len(st.details[room_id]) + 1,
                   !.tm = AttachDetailTimer(@, room_id, speed)]

\* what tick_fee returns: the increment, 0 without a record
fee_increment(st, room_id) ==
    LET record == IF st.current[room_id] # 0 THEN st.current[room_id]
                  ELSE get_active_detail_record(st.details, room_id)
    IN  IF record = 0 THEN 0
        ELSE st.details[room_id][record].rate_per_min * price_per_unit

\* a tick_fee that charges nothing
tick_fee_nothing(st, room_id) == st

tick_fee(st, room_id) ==
    LET record == IF st.current[room_id] # 0 THEN st.current[room_id]
                  ELSE get_active_detail_record(st.details, room_id)
    IN  IF record = 0 THEN st
        ELSE [st EXCEPT !.current[room_id] = record,
                        !.details[room_id][record].fee_value =
                            @ + st.details[room_id][record].rate_per_min * price_per_unit]

\* Scheduler._start_detail_segment / _close_detail_segment
_start_detail_segment(st, room_id, speed) ==
    IF ~st.billing THEN st ELSE start_new_detail_record(st, room_id, speed, st.now)

_close_detail_segment(st, room_id) ==
    IF ~st.billing THEN st ELSE close_current_detail_record(st, room_id, st.now)

\* ------------------------------------------------------------ scheduler
assign_service(st, service) ==
    LET s == [service EXCEPT !.wait_seconds = 0, !.priority_token = 0,
                             !.time_slice_enforced = FALSE]
        s1 == [st EXCEPT !.services = DictPut(@, s),
                         !.rooms[s.room_id].is_serving = TRUE,
                         !.rooms[s.room_id].speed = s.speed]
    IN  _start_detail_segment(s1, s.room_id, s.speed)

\* an enqueue that never enforces the time slice
_enqueue_unenforced(st, service, time_slice_enforced) ==
    LET s == [service EXCEPT !.time_slice_enforced = FALSE,
                             !.wait_seconds = time_slice_seconds,
                             !.total_waited_seconds = 0]
    IN  [st EXCEPT !.waits = DictPut(@, s),
                   !.rooms[s.room_id].is_serving = FALSE]

_enqueue_waiting(st, service, time_slice_enforced) ==
    LET s == [service EXCEPT !.time_slice_enforced = time_slice_enforced,
                             !.wait_seconds = time_slice_seconds,
                             !.total_waited_seconds = 0]
    IN  [st EXCEPT !.waits = DictPut(@, s),
                   !.rooms[s.room_id].is_serving = FALSE]

\* a fill that promotes the best waiting object whatever the capacity
_fill_beyond_capacity(st) ==
    IF Len(st.waits) = 0 THEN st
    ELSE LET next_service == st.waits[_pop_highest_priority(st.waits)]
         IN  assign_service([st EXCEPT !.waits = DictPop(@, next_service.room_id)],
                            next_service)

RECURSIVE _fill_capacity_if_possible(_)
_fill_capacity_if_possible(st) ==
    IF Len(st.services) >= st.max_concurrent THEN st
    ELSE IF Len(st.waits) = 0 THEN st
    ELSE LET Promote(next_service) ==
                 assign_service([st EXCEPT !.waits = DictPop(@, next_service.room_id)],
                                next_service)
             Promoted(next_service, s2) ==
                 Log(s2, Event("promote", next_service.room_id, next_service.speed,
                               "fill", NoRoom, st, s2))
             Fill(next_service) == Promoted(next_service, Promote(next_service))
         IN  _fill_capacity_if_possible(Fill(st.waits[_pop_highest_priority(st.waits)]))

\* a release that also withdraws the request of a room that waits
release_or_withdraw(st, room_id) ==
    LET s1 == [st EXCEPT !.services = DictPop(@, room_id),
                         !.waits = DictPop(@, room_id)]
        s2 == _close_detail_segment(s1, room_id)
        s3 == [s2 EXCEPT !.rooms[room_id].is_serving = FALSE]
    IN  _fill_capacity_if_possible(s3)

release_service(st, room_id) ==
    IF ~Has(st.services, room_id) THEN st
    ELSE LET s1 == [st EXCEPT !.services = DictPop(@, room_id)]
             s2 == _close_detail_segment(s1, room_id)
             s3 == [s2 EXCEPT !.rooms[room_id].is_serving = FALSE]
         IN  _fill_capacity_if_possible(s3)

cancel_request(st, room_id) ==
    LET s1 == [st EXCEPT !.services = DictPop(@, room_id),
                         !.waits = DictPop(@, room_id)]
        s2 == _close_detail_segment(s1, room_id)
    IN  [s2 EXCEPT !.rooms[room_id].is_serving = FALSE]

\* a boost that raises nothing
_boost_nothing(st, new_speed) == st

_boost_waiting_priority(st, new_speed) ==
    [st EXCEPT !.waits =
        [i \in 1..Len(st.waits) |->
            IF st.waits[i].speed = new_speed
            THEN [st.waits[i] EXCEPT !.priority_token = @ + 1]
            ELSE st.waits[i]]]

preempt(st, victim, new_service) ==
    LET s1 == [st EXCEPT !.services = DictPop(@, victim.room_id)]
        s2 == _close_detail_segment(s1, victim.room_id)
        s3 == _enqueue_waiting(s2, victim, FALSE)
        s4 == _boost_waiting_priority(s3, new_service.speed)
    IN  assign_service(s4, new_service)

\* a removal that leaves the room's objects where they are
_remove_nothing(st, room_id) == st

_remove_existing(st, room_id) ==
    LET s1 == IF Has(st.services, room_id) THEN release_service(st, room_id) ELSE st
    IN  [s1 EXCEPT !.waits = DictPop(@, room_id)]

\* max(compare_speed(speed, svc.speed) for svc in services), -1 of none
highest_cmp(services, speed) ==
    LET cmp_results == {compare_speed(speed, services[i].speed) : i \in 1..Len(services)}
    IN  IF cmp_results = {} THEN -1
        ELSE CHOOSE c \in cmp_results : \A d \in cmp_results : d <= c

on_new_request(st, room_id, speed) ==
    LET service == ServiceObject(room_id, speed)
        Path(s1, victim) ==
            IF Len(s1.services) < s1.max_concurrent THEN "assign"
            ELSE IF victim # NoRoom THEN "preempt" ELSE "wait"
        Place(s1, victim) ==
            IF Len(s1.services) < s1.max_concurrent THEN assign_service(s1, service)
            ELSE IF victim # NoRoom
                 THEN preempt(s1, s1.services[IndexOf(s1.services, victim)], service)
            ELSE _enqueue_waiting(s1, service, highest_cmp(s1.services, speed) = 0)
        Placed(s1, victim, s2) ==
            Log(s2, Event("request", room_id, speed, Path(s1, victim),
                          IF Path(s1, victim) = "preempt" THEN victim ELSE NoRoom,
                          s1, s2))
        Decide(s1, victim) == Placed(s1, victim, Place(s1, victim))
        Request(s1) == Decide(s1, select_victim_by_rules(s1.services, speed))
    IN  Request(_remove_existing(st, room_id))


\* ----------------------------------------------------------- room model
\* Room._move_towards: <<new current_temp, reached>>
_move_towards(current_temp, target, delta_per_sec) ==
    IF delta_per_sec <= 0 THEN <<current_temp, current_temp = target>>
    ELSE IF Abs(target - current_temp) <= delta_per_sec THEN <<target, TRUE>>
    ELSE IF target - current_temp > 0 THEN <<current_temp + delta_per_sec, FALSE>>
    ELSE <<current_temp - delta_per_sec, FALSE>>

\* Room.tick_temperature: <<room, reached>>
\* a tick_temperature without the drift of an idle room
tick_temperature_still(room, serving) ==
    LET delta_per_sec == IF room.speed = "HIGH" THEN temperature.high_delta
                         ELSE IF room.speed = "LOW" THEN temperature.low_delta
                         ELSE temperature.mid_delta
        served == _move_towards(room.current_temp, room.target_temp, delta_per_sec)
    IN  IF serving THEN <<[room EXCEPT !.current_temp = served[1]], served[2]>>
        ELSE <<room, FALSE>>

tick_temperature(room, serving) ==
    LET delta_per_sec == IF room.speed = "HIGH" THEN temperature.high_delta
                         ELSE IF room.speed = "LOW" THEN temperature.low_delta
                         ELSE temperature.mid_delta
        served == _move_towards(room.current_temp, room.target_temp, delta_per_sec)
        idle == _move_towards(room.current_temp, room.initial_temp, temperature.idle_drift)
    IN  IF serving THEN <<[room EXCEPT !.current_temp = served[1]], served[2]>>
        ELSE <<[room EXCEPT !.current_temp = idle[1]], FALSE>>

needs_auto_restart(room, threshold) ==
    Abs(room.current_temp - room.target_temp) >= threshold

\* an apply_pending_target that keeps what is pending
apply_and_keep_pending(room, t, throttle_ms) ==
    IF room.pending_target_temp = NoTemp THEN room
    ELSE [room EXCEPT !.target_temp = room.pending_target_temp,
                      !.last_temp_change_timestamp = t]

apply_pending_target(room, t, throttle_ms) ==
    IF room.pending_target_temp = NoTemp THEN room
    ELSE IF room.last_temp_change_timestamp = NoTime
              \/ t - room.last_temp_change_timestamp >= throttle_ms
         THEN [room EXCEPT !.target_temp = room.pending_target_temp,
                           !.pending_target_temp = NoTemp,
                           !.last_temp_change_timestamp = t]
    ELSE room

\* ------------------------------------------------------ scheduler tick
_apply_pending_targets(st) ==
    [st EXCEPT !.rooms =
        [r \in Rooms |-> apply_pending_target(st.rooms[r], st.now, throttle.change_temp)]]

RECURSIVE AdvanceServingFrom(_, _, _)
AdvanceServingFrom(st, services, i) ==
    IF i > Len(services) THEN st
    ELSE LET service == [services[i] EXCEPT !.served_seconds = @ + 1]
             s1 == IF st.billing THEN tick_fee(st, service.room_id) ELSE st
         IN  AdvanceServingFrom([s1 EXCEPT !.services = DictPut(@, service)],
                                services, i + 1)

_advance_serving(st) == AdvanceServingFrom(st, st.services, 1)

_handle_time_slice_expiry(st, waiting_service) ==
    LET Requeue(s2, victim) ==
            [s2 EXCEPT !.waits = DictPop(DictPut(@, victim), waiting_service.room_id)]
        Rotate(victim) ==
            assign_service(
                Requeue(_close_detail_segment(
                            [st EXCEPT !.services = DictPop(@, victim.room_id)],
                            victim.room_id),
                        victim),
                [waiting_service EXCEPT !.time_slice_enforced = FALSE])
        Rotated(victim, s4) ==
            Log(s4, Event("rotate", waiting_service.room_id, waiting_service.speed,
                          "expiry", victim.room_id, st, s4))
        Expire(victim) == Rotated(victim, Rotate(victim))
    IN  IF _longest_served(st.services) = 0 THEN st
        ELSE Expire([st.services[_longest_served(st.services)]
                        EXCEPT !.time_slice_enforced = TRUE])

RECURSIVE AdvanceWaitingFrom(_, _, _)
AdvanceWaitingFrom(st, wait_entries, i) ==
    IF i > Len(wait_entries) THEN st
    ELSE LET Saved(service) == [st EXCEPT !.waits = DictPut(@, service)]
             Advance(service) ==
                 IF service.wait_seconds = 0 /\ service.time_slice_enforced
                 THEN _handle_time_slice_expiry(Saved(service), service)
                 ELSE Saved(service)
         IN  AdvanceWaitingFrom(
                 Advance([wait_entries[i] EXCEPT
                             !.total_waited_seconds = @ + 1,
                             !.wait_seconds = IF @ > 0 THEN @ - 1 ELSE @]),
                 wait_entries, i + 1)

_advance_waiting(st) == AdvanceWaitingFrom(st, st.waits, 1)

RECURSIVE UpdateRoomTemperaturesFrom(_, _, _)
UpdateRoomTemperaturesFrom(st, active_rooms, r) ==
    IF r > NumRooms THEN st
    ELSE LET Saved(res) == [st EXCEPT !.rooms[r] = res[1]]
             Update(res) ==
                 IF r \in active_rooms /\ res[2] THEN release_service(Saved(res), r)
                 ELSE Saved(res)
         IN  UpdateRoomTemperaturesFrom(
                 Update(tick_temperature(st.rooms[r], r \in active_rooms)),
                 active_rooms, r + 1)

_update_room_temperatures(st) == UpdateRoomTemperaturesFrom(st, RoomIds(st.services), 1)

RECURSIVE HandleAutoRestartFrom(_, _, _)
HandleAutoRestartFrom(st, queued_rooms, r) ==
    IF r > NumRooms THEN st
    ELSE LET room == st.rooms[r]
             s1 == IF /\ room.status # "VACANT"
                      /\ r \notin queued_rooms
                      /\ needs_auto_restart(room, temperature.auto_restart_threshold)
                   THEN on_new_request(st, r, room.speed)
                   ELSE st
         IN  HandleAutoRestartFrom(s1, queued_rooms, r + 1)

_handle_auto_restart(st) ==
    HandleAutoRestartFrom(st, RoomIds(st.services) \cup RoomIds(st.waits), 1)

tick_1s(st) ==
    _fill_capacity_if_possible(
        _handle_auto_restart(
            _update_room_temperatures(
                _advance_waiting(
                    _advance_serving(
                        _apply_pending_targets(st))))))

\* ------------------------------------------------------ TimeManager.tick
\* event_bus.publish_sync(SchedulerEvent(event_type, room_id, payload))
SchedulerEvent(event_type, room_id, speed, timer_id) ==
    [event_type |-> event_type, room_id |-> room_id, speed |-> speed,
     timer_id |-> timer_id]

Publish(st, e) == [st EXCEPT !.tm.published = Append(@, e)]

_get_active_service_rooms(tm) ==
    {tm.timers[i].room_id : i \in {j \in 1..Len(tm.timers) : tm.timers[j].timer_type = "SERVICE"}}

_get_active_wait_rooms(tm) ==
    {tm.timers[i].room_id : i \in {j \in 1..Len(tm.timers) : tm.timers[j].timer_type = "WAIT"}}

_get_service_speeds(tm) ==
    {tm.timers[i].speed : i \in {j \in 1..Len(tm.timers) :
                                    tm.timers[j].timer_type = "SERVICE"
                                    /\ tm.timers[j].speed # ""}}

\* a tick that passes the SERVICE timers by
_tick_no_service_timers(st) == st

_tick_service_timers(st) ==
    [st EXCEPT !.tm.timers =
        [i \in 1..Len(@) |->
            IF @[i].timer_type = "SERVICE"
            THEN [@[i] EXCEPT !.elapsed_seconds = @ + 1]
            ELSE @[i]]]

\* a WAIT timer whose remaining_seconds a tick leaves alone
WaitTimerStuck(state, service_speeds) ==
    [state EXCEPT !.elapsed_seconds = @ + 1]

\* one WAIT timer after the update of a tick
WaitTimerTicked(state, service_speeds) ==
    IF ~state.time_slice_enforced /\ state.speed \in service_speeds
    THEN [state EXCEPT !.elapsed_seconds = @ + 1,
                       !.time_slice_enforced = TRUE,
                       !.remaining_seconds = time_slice_seconds]
    ELSE IF state.remaining_seconds > 0
    THEN [state EXCEPT !.elapsed_seconds = @ + 1, !.remaining_seconds = @ - 1]
    ELSE [state EXCEPT !.elapsed_seconds = @ + 1]

RECURSIVE TickWaitTimersFrom(_, _, _)
TickWaitTimersFrom(st, service_speeds, i) ==
    IF i > Len(st.tm.timers) THEN st
    ELSE IF st.tm.timers[i].timer_type # "WAIT"
    THEN TickWaitTimersFrom(st, service_speeds, i + 1)
    ELSE LET Expire(state, s1) ==
                 IF state.remaining_seconds = 0 /\ state.time_slice_enforced
                 THEN Publish(s1, SchedulerEvent("TIME_SLICE_EXPIRED", state.room_id,
                                                 state.speed, state.timer_id))
                 ELSE s1
             Update(state) == Expire(state, [st EXCEPT !.tm.timers[i] = state])
         IN  TickWaitTimersFrom(Update(WaitTimerTicked(st.tm.timers[i], service_speeds)),
                                service_speeds, i + 1)

_tick_wait_timers(st) == TickWaitTimersFrom(st, _get_service_speeds(st.tm), 1)

\* service_timer.current_fee += increment, for the SERVICE timer of the room
\* a mirror that leaves the SERVICE timer as it is
MirrorNothing(tm, room_id, increment) == tm

MirrorFee(tm, room_id, increment) ==
    LET service_timer == TimerIndex(tm.timers, tm.room_to_timer[room_id]["SERVICE"])
    IN  IF tm.room_to_timer[room_id]["SERVICE"] = 0 \/ service_timer = 0 THEN tm
        ELSE [tm EXCEPT !.timers[service_timer].current_fee = @ + increment]

RECURSIVE TickDetailTimersFrom(_, _)
TickDetailTimersFrom(st, i) ==
    IF i > Len(st.tm.timers) THEN st
    ELSE IF st.tm.timers[i].timer_type # "DETAIL"
    THEN TickDetailTimersFrom(st, i + 1)
    ELSE LET state == st.tm.timers[i]
             Charge(s1, increment) ==
                 [s1 EXCEPT !.tm = MirrorFee([@ EXCEPT !.timers[i].current_fee = @ + increment],
                                             state.room_id, increment)]
             Elapse(s1) ==
                 IF s1.tm.fee_callback /\ state.speed # ""
                 THEN Charge(tick_fee(s1, state.room_id), fee_increment(s1, state.room_id))
                 ELSE s1
         IN  TickDetailTimersFrom(
                 Elapse([st EXCEPT !.tm.timers[i].elapsed_seconds = @ + 1]), i + 1)

_tick_detail_timers(st) == TickDetailTimersFrom(st, 1)

_tick_accommodation_timers(st) ==
    [st EXCEPT !.tm.timers =
        [i \in 1..Len(@) |->
            IF @[i].timer_type = "ACCOMMODATION"
            THEN [@[i] EXCEPT !.elapsed_seconds = @ + 1]
            ELSE @[i]]]

RECURSIVE TickTemperaturesFrom(_, _, _)
TickTemperaturesFrom(st, active_rooms, r) ==
    IF r > NumRooms THEN st
    ELSE LET Saved(res) == [st EXCEPT !.rooms[r] = res[1]]
             Reached(res) ==
                 IF res[2] /\ r \in active_rooms
                 THEN Publish(Saved(res), SchedulerEvent("TEMPERATURE_REACHED", r, "", 0))
                 ELSE Saved(res)
         IN  TickTemperaturesFrom(
                 Reached(tick_temperature(st.rooms[r], r \in active_rooms)),
                 active_rooms, r + 1)

_tick_temperatures(st) == TickTemperaturesFrom(st, _get_active_service_rooms(st.tm), 1)

_tick_throttle_windows(st) == _apply_pending_targets(st)

RECURSIVE CheckAutoRestartFrom(_, _)
CheckAutoRestartFrom(st, r) ==
    IF r > NumRooms THEN st
    ELSE IF \/ st.rooms[r].status = "VACANT"
            \/ st.rooms[r].manual_powered_off
            \/ r \in _get_active_service_rooms(st.tm)
            \/ r \in _get_active_wait_rooms(st.tm)
            \/ ~needs_auto_restart(st.rooms[r], temperature.auto_restart_threshold)
    THEN CheckAutoRestartFrom(st, r + 1)
    ELSE CheckAutoRestartFrom(
             Publish(st, SchedulerEvent("AUTO_RESTART_NEEDED", r, st.rooms[r].speed, 0)),
             r + 1)

_check_auto_restart(st) == CheckAutoRestartFrom(st, 1)

\* TimeManager.tick; published starts empty at every tick
tick(st) ==
    LET Count(s1) == [s1 EXCEPT !.tm.tick_counter = @ + 1]
    IN  Count(_check_auto_restart(
                _tick_throttle_windows(
                  _tick_temperatures(
                    _tick_accommodation_timers(
                      _tick_detail_timers(
                        _tick_wait_timers(
                          _tick_service_timers(
                            [st EXCEPT !.tm.published = <<>>]))))))))

\* the stages of a tick that start by reading the rooms from the repository
RepositoryStages == {"_tick_temperatures", "_tick_throttle_windows", "_check_auto_restart"}

\* TimeManager.tick when _iter_rooms raises in the stage failing: the stages
\* before it have run, the exception leaves tick from there
tick_raising(st, failing) ==
    LET Timers(s1) ==
            _tick_accommodation_timers(
              _tick_detail_timers(
                _tick_wait_timers(
                  _tick_service_timers(s1))))
        Rest(s1) ==
            CASE failing = "_tick_temperatures" -> s1
              [] failing = "_tick_throttle_windows" -> _tick_temperatures(s1)
              [] failing = "_check_auto_restart" ->
                     _tick_throttle_windows(_tick_temperatures(s1))
    IN  Rest(Timers([st EXCEPT !.tm.published = <<>>]))

set_tick_interval(tm, seconds) ==
    IF seconds <= 0 THEN tm ELSE [tm EXCEPT !.tick_interval = seconds]

\* -------------------------------------------------------- scheduler lock
\* Scheduler._lock as the set of threads that are between acquire_lock and
\* release_lock or inside a `with self._lock`.
\* a lock that lets every thread in
lock_ignored(held, t) == TRUE

\* the lock can be taken by thread t
lock_is_free(held, t) == held = {}

acquire_lock(held, t) == held \cup {t}

release_lock(held, t) == held \ {t}

\* ------------------------------------------------------------ event bus
\* AsyncEventBus as a record: queue (_queue, an asyncio.Queue of maxsize),
\* handlers (_handlers, per event type in registration order), running
\* (_running), consumer_task (_consumer_task: "none", "running", or "done" when
\* the task has ended by itself), putters (the events of the publish calls
\* that wait for room in the queue), retrying (the event of the publish_sync
\* that has met QueueFull, if any), issued (event ids are 1, 2, ... in
\* creation order), op and returned (the latest call on the bus and what it
\* returned), calls (the handlers the consumer has invoked for the latest
\* event it took, in order), errors (the handler errors it has printed).
EventTypes ==
    {"TIME_SLICE_EXPIRED", "TEMPERATURE_REACHED", "AUTO_RESTART_NEEDED", "DETAIL_TIMEOUT"}

AsyncEventBus(maxsize) ==
    [queue |-> <<>>, maxsize |-> maxsize, handlers |-> [t \in EventTypes |-> <<>>],
     running |-> FALSE, consumer_task |-> "none", putters |-> <<>>,
     retrying |-> <<>>, issued |-> 0,
     op |-> "none", returned |-> "None", calls |-> <<>>, errors |-> 0]

\* SchedulerEvent(event_type, room_id) with its event_id
BusEvent(bus, event_type, room_id) ==
    [event_type |-> event_type, room_id |-> room_id, event_id |-> bus.issued + 1]

Issue(bus, op) == [bus EXCEPT !.issued = @ + 1, !.op = op]

\* asyncio.Queue.full
full(bus) == bus.maxsize > 0 /\ Len(bus.queue) >= bus.maxsize

register_handler(bus, event_type, handler) ==
    [bus EXCEPT !.handlers[event_type] = Append(@, handler), !.op = "register_handler"]

\* await _queue.put(event): waits while the queue is full
publish(bus, event) ==
    IF full(bus)
    THEN [Issue(bus, "publish") EXCEPT !.putters = Append(@, event), !.returned = "waiting"]
    ELSE [Issue(bus, "publish") EXCEPT !.queue = Append(@, event), !.returned = "None"]

\* a publish call that waited finds room and returns
PutterResumed(bus) ==
    [bus EXCEPT !.queue = Append(@, Head(bus.putters)), !.putters = Tail(@),
                !.op = "publish", !.returned = "None"]

\* publish_sync up to its first put_nowait: TimeManager.tick calls it on the
\* executor thread of the clock loop, the consumer runs on the event loop, so
\* the consumer can take events before the retry that follows QueueFull
publish_sync(bus, event) ==
    IF ~full(bus)
    THEN [Issue(bus, "publish_sync") EXCEPT !.queue = Append(@, event), !.returned = "True"]
    ELSE [Issue(bus, "publish_sync") EXCEPT !.retrying = <<event>>, !.returned = "QueueFull"]

\* except QueueFull: get_nowait, put_nowait; QueueEmpty returns False
publish_sync_retry(bus) ==
    IF bus.queue = <<>>
    THEN [bus EXCEPT !.retrying = <<>>, !.op = "publish_sync", !.returned = "False"]
    ELSE [bus EXCEPT !.queue = Append(Tail(@), Head(bus.retrying)), !.retrying = <<>>,
                     !.op = "publish_sync", !.returned = "True"]

\* the handlers that raise when they are called
Raising == {"raising"}

\* a consumer whose task ends at the first handler that raises
RECURSIVE InvokeUntilRaise(_, _, _, _)
InvokeUntilRaise(bus, handlers, event, i) ==
    IF i > Len(handlers) THEN bus
    ELSE IF handlers[i] \in Raising
    THEN [bus EXCEPT !.calls = Append(@, handlers[i]), !.consumer_task = "done"]
    ELSE InvokeUntilRaise([bus EXCEPT !.calls = Append(@, handlers[i])],
                          handlers, event, i + 1)

\* for handler in handlers: try: await handler(event) except Exception: print
RECURSIVE InvokeHandlers(_, _, _, _)
InvokeHandlers(bus, handlers, event, i) ==
    IF i > Len(handlers) THEN bus
    ELSE IF handlers[i] \in Raising
    THEN InvokeHandlers([bus EXCEPT !.calls = Append(@, handlers[i]), !.errors = @ + 1],
                        handlers, event, i + 1)
    ELSE InvokeHandlers([bus EXCEPT !.calls = Append(@, handlers[i])],
                        handlers, event, i + 1)

\* one turn of _consume_loop that finds an event in the queue
_consume_loop(bus) ==
    LET event == Head(bus.queue)
    IN  InvokeHandlers([bus EXCEPT !.queue = Tail(@), !.calls = <<>>,
                                   !.op = "_consume_loop", !.returned = "None"],
                       bus.handlers[event.event_type], event, 1)

start(bus) ==
    IF bus.running THEN [bus EXCEPT !.op = "start"]
    ELSE [bus EXCEPT !.running = TRUE, !.consumer_task = "running", !.op = "start"]

stop(bus) ==
    [bus EXCEPT !.running = FALSE, !.consumer_task = "none", !.op = "stop"]

pending_count(bus) == Len(bus.queue)

is_running(bus) == bus.running

\* ------------------------------------------------------------ check-out
\* repository.list_completed_detail_records: indices into the room's details
list_completed_detail_records(details, room_id) ==
    SelectSeq([i \in 1..Len(details[room_id]) |-> i],
              LAMBDA i : details[room_id][i].ended_at # NoTime)

\* repository.get_latest_accommodation_order: greatest check_in_at, 0 for None
get_latest_accommodation_order(orders, room_id) ==
    LET mine == 1..Len(orders[room_id])
    IN  IF mine = {} THEN 0
        ELSE CHOOSE i \in mine :
                 /\ \A j \in mine : orders[room_id][j].check_in_at
                                         <= orders[room_id][i].check_in_at
                 /\ \A j \in mine : orders[room_id][j].check_in_at
                                         = orders[room_id][i].check_in_at => j <= i

\* an ACBill.add_record that forgets the fee
add_record_without_fee(bill, record, details) ==
    [bill EXCEPT !.details = Append(@, record)]

\* ACBill.add_record; a record is its index into the details of the room
add_record(bill, record, details) ==
    [bill EXCEPT !.details = Append(@, record),
                 !.total_fee = @ + details[record].fee_value]

RECURSIVE AddRecordsFrom(_, _, _, _)
AddRecordsFrom(bill, completed, details, i) ==
    IF i > Len(completed) THEN bill
    ELSE AddRecordsFrom(add_record(bill, completed[i], details), completed, details, i + 1)

MinOf(S) == CHOOSE x \in S : \A y \in S : x <= y
MaxOf(S) == CHOOSE x \in S : \A y \in S : y <= x

\* BillingService.aggregate_records_to_bill; the bill also notes the stay it
\* was made for and how many detail records there were
aggregate_records_to_bill(st, room_id) ==
    LET all == list_completed_detail_records(st.details, room_id)
        order == get_latest_accommodation_order(st.orders, room_id)
        completed == IF order = 0 THEN all
                     ELSE SelectSeq(all, LAMBDA i :
                              st.details[room_id][i].started_at
                                  >= st.orders[room_id][order].check_in_at)
        range == {completed[k] : k \in 1..Len(completed)}
        bill == [room_id |-> room_id,
                 period_start |-> MinOf({st.details[room_id][i].started_at : i \in range}),
                 period_end |-> MaxOf({st.details[room_id][i].ended_at : i \in range}),
                 total_fee |-> 0, details |-> <<>>,
                 stay |-> st.stay[room_id], upto |-> Len(st.details[room_id])]
    IN  IF Len(completed) = 0 THEN st
        ELSE [st EXCEPT !.bills[room_id] =
                  Append(@, AddRecordsFrom(bill, completed, st.details[room_id], 1))]

\* ------------------------------------------------------------ use cases
\* what a call that raises leaves: the state, and the exception in error
Raise(st, error) == [st EXCEPT !.error = error]

\* a validation that lets every temperature through
_validate_anything(target_temp, mode) == TRUE

\* UseACService._validate_target_temp: TRUE when it does not raise
_validate_target_temp(target_temp, mode) ==
    LET temp_range == IF mode = "heat" THEN temperature.heat_range
                      ELSE temperature.cool_range
    IN  ~(target_temp < temp_range[1] \/ target_temp > temp_range[2])

\* Room.request_target_temp
request_target_temp(room, target, t, throttle_ms) ==
    IF room.last_temp_change_timestamp # NoTime
           /\ t - room.last_temp_change_timestamp < throttle_ms
    THEN [room EXCEPT !.pending_target_temp = target]
    ELSE [room EXCEPT !.pending_target_temp = NoTemp,
                      !.target_temp = target,
                      !.last_temp_change_timestamp = t]

\* UseACService.power_on; mode is "" and target_temp is NoTemp when the guest
\* gives none. The room is saved only after the validation.
power_on(st, room_id, mode, target_temp, speed) ==
    LET room_mode == IF mode # "" THEN mode ELSE st.rooms[room_id].mode
        s1 == [st EXCEPT !.rooms[room_id].status = "OCCUPIED",
                         !.rooms[room_id].mode = room_mode,
                         !.rooms[room_id].target_temp =
                             IF target_temp # NoTemp THEN target_temp ELSE @,
                         !.rooms[room_id].speed = speed,
                         !.rooms[room_id].is_serving = FALSE,
                         !.rooms[room_id].manual_powered_off = FALSE]
        s2 == close_current_detail_record(s1, room_id, s1.now)
    IN  IF target_temp # NoTemp /\ ~_validate_target_temp(target_temp, room_mode)
        THEN Raise(st, "TemperatureRangeError")
        ELSE on_new_request(s2, room_id, speed)

\* UseACService.change_temp
change_temp(st, room_id, target_temp) ==
    IF ~_validate_target_temp(target_temp, st.rooms[room_id].mode)
    THEN Raise(st, "TemperatureRangeError")
    ELSE [st EXCEPT !.rooms[room_id] =
              request_target_temp(@, target_temp, st.now, throttle.change_temp)]

\* the change-temp endpoint of ac_router: a target outside the range of the
\* room's mode is ignored and the state of the room is returned
ac_router_change_temp(st, room_id, targetTemp) ==
    LET mode == st.rooms[room_id].mode
        allowed == IF mode = "cool" THEN temperature.cool_range
                   ELSE temperature.heat_range
    IN  IF ~(allowed[1] <= targetTemp /\ targetTemp <= allowed[2]) THEN st
        ELSE change_temp(st, room_id, targetTemp)

change_speed(st, room_id, speed) ==
    LET s1 == close_current_detail_record(st, room_id, st.now)
        s2 == [s1 EXCEPT !.rooms[room_id].speed = speed]
    IN  on_new_request(s2, room_id, speed)

\* the change-speed endpoint of ac_router
ac_router_change_speed(st, room_id, speed) ==
    IF speed \notin {"HIGH", "MID", "LOW"} THEN Raise(st, "400 invalid speed")
    ELSE change_speed(st, room_id, speed)

\* a power_off that flips manual_powered_off instead of setting it
power_off_flipping(st, room_id) ==
    LET s1 == [st EXCEPT !.rooms[room_id].is_serving = FALSE,
                         !.rooms[room_id].status = "OCCUPIED",
                         !.rooms[room_id].manual_powered_off = ~@]
        s2 == close_current_detail_record(s1, room_id, s1.now)
    IN  cancel_request(s2, room_id)

power_off(st, room_id) ==
    LET s1 == [st EXCEPT !.rooms[room_id].is_serving = FALSE,
                         !.rooms[room_id].status = "OCCUPIED",
                         !.rooms[room_id].manual_powered_off = TRUE]
        s2 == close_current_detail_record(s1, room_id, s1.now)
    IN  cancel_request(s2, room_id)

\* CheckInService.check_in; check_in_at is the date the request carries, and
\* the order also notes the instant it was made at. timer_id is 0 for None.
check_in(st, room_id, check_in_at) ==
    LET Occupy(s2) ==
            [s2 EXCEPT !.rooms[room_id].initial_temp = s2.rooms[room_id].current_temp,
                       !.rooms[room_id].speed = "MID",
                       !.rooms[room_id].is_serving = FALSE,
                       !.rooms[room_id].status = "OCCUPIED",
                       !.tm = IF @.attached THEN create_accommodation_timer(@, room_id)
                              ELSE @,
                       !.orders[room_id] =
                           Append(@, [room_id |-> room_id, check_in_at |-> check_in_at,
                                      at |-> s2.now,
                                      timer_id |-> IF s2.tm.attached
                                                   THEN s2.tm.next_id ELSE 0]),
                       !.stay[room_id] = @ + 1]
    IN  Occupy(close_current_detail_record(cancel_request(st, room_id), room_id, st.now))

\* CheckOutService.check_out; without an order it raises after power_off. The
\* room it saves at the end is the one it read before power_off, so the
\* manual_powered_off that power_off has stored is overwritten by the earlier one.
check_out(st, room_id) ==
    LET Vacate(s3) ==
            [s3 EXCEPT !.rooms[room_id].status = "VACANT",
                       !.rooms[room_id].is_serving = FALSE,
                       !.rooms[room_id].speed = "MID",
                       !.rooms[room_id].target_temp = temperature.default_target,
                       !.rooms[room_id].manual_powered_off =
                           st.rooms[room_id].manual_powered_off]
        Stop(s2, timer_id) ==
            IF timer_id # 0 /\ s2.tm.attached /\ has_timer(s2.tm, timer_id)
            THEN [s2 EXCEPT !.tm = cancel_timer(@, timer_id)]
            ELSE s2
        Settle(s2) ==
            IF get_latest_accommodation_order(s2.orders, room_id) = 0 THEN s2
            ELSE Vacate(aggregate_records_to_bill(
                     Stop(s2, s2.orders[room_id][
                                  get_latest_accommodation_order(s2.orders, room_id)
                              ].timer_id),
                     room_id))
        Leave(s1) == Settle([s1 EXCEPT !.waits = DictPop(@, room_id)])
    IN  Leave(power_off(st, room_id))

\* ---------------------------------------------------------------- state
VARIABLES rooms, services, waits, details, current, billing, max_concurrent,
          now, stay, orders, bills, tm, last, reply, bus, lock, thread, snapshot,
          sync

vars == <<rooms, services, waits, details, current, billing, max_concurrent,
          now, stay, orders, bills, tm, last, reply, bus, lock, thread, snapshot,
          sync>>

\* what the repository, the queues and the TimeManager hold
stored == <<rooms, services, waits, details, current, billing, max_concurrent,
            now, stay, orders, bills, tm>>

\* the scheduler lock, the thread of a request in the scheduler, the latest
\* answer of the monitor and the tick synchronisation of the TimeManager
threads == <<lock, thread, snapshot, sync>>

\* the state the handlers start from
St ==
    [rooms |-> rooms, services |-> services, waits |-> waits, details |-> details,
     current |-> current, billing |-> billing, max_concurrent |-> max_concurrent,
     now |-> now, stay |-> stay,
     orders |-> orders, bills |-> bills, tm |-> tm, ev |-> <<>>, error |-> ""]

\* what an event says without its snapshots of the queues
Brief(e) ==
    [type |-> e.type, room |-> e.room, speed |-> e.speed, path |-> e.path,
     victim |-> e.victim]

\* the counters the model keeps finite
Bounded(st) ==
    /\ \A i \in 1..Len(st.services) : st.services[i].served_seconds <= MaxSeconds
    /\ \A i \in 1..Len(st.waits) :
           /\ st.waits[i].served_seconds <= MaxSeconds
           /\ st.waits[i].total_waited_seconds <= MaxSeconds
           /\ st.waits[i].priority_token <= MaxToken
    /\ \A r \in Rooms : Len(st.details[r]) <= MaxRecords
    /\ \A r \in Rooms : Len(st.bills[r]) <= MaxBills
    /\ \A r \in Rooms : st.stay[r] <= MaxStays
    /\ st.now <= MaxNow
    /\ st.tm.next_id <= MaxTimers + 1

\* the state a handler leaves
Store(st) ==
    /\ rooms' = st.rooms
    /\ services' = st.services
    /\ waits' = st.waits
    /\ details' = st.details
    /\ current' = st.current
    /\ billing' = st.billing
    /\ max_concurrent' = st.max_concurrent
    /\ now' = st.now
    /\ stay' = st.stay
    /\ orders' = st.orders
    /\ bills' = st.bills
    /\ tm' = st.tm

\* the state a handler leaves; last notes the latest call that changed anything
\* and what it did
Commit(st, op, room_id, speed) ==
    /\ Bounded(st)
    /\ Store(st)
    /\ UNCHANGED <<reply, bus, threads>>
    /\ last' = IF st = St THEN last
               ELSE [op |-> op, room |-> room_id, speed |-> speed,
                     ev |-> [i \in 1..Len(st.ev) |-> Brief(st.ev[i])]]

\* what the latest request of a room panel was and how it was answered: the
\* endpoint, the room and its mode, the payload (mode of the request, target
\* temperature, speed), the exception raised ("" for none) and whether the
\* rooms or the queues are no longer as they were
NoReply ==
    [op |-> "none", room |-> NoRoom, mode |-> "", target_temp |-> NoTemp,
     speed |-> "", error |-> "", changed |-> FALSE]

Answer(st, op, room_id, mode, target_temp, speed) ==
    /\ Bounded(st)
    /\ Store(st)
    /\ UNCHANGED <<last, bus, threads>>
    /\ reply' = [op |-> op, room |-> room_id, mode |-> mode,
                 target_temp |-> target_temp, speed |-> speed, error |-> st.error,
                 changed |-> \/ st.rooms # rooms
                             \/ st.services # services
                             \/ st.waits # waits]

\* a request thread: where it stands in the scheduler (pc), the request it
\* carries, whether the tick held the lock when it called, the room preempt
\* takes the service from and the objects it works on (victim, new_service)
IdleThread ==
    [pc |-> "idle", room |-> NoRoom, speed |-> "", waited |-> FALSE,
     victim |-> NoRoom, objects |-> <<>>]

\* the monitor's answer: the rooms it reports serving (isServing) and waiting
\* (isWaiting), and the request that was in the scheduler when it read them
NoSnapshot ==
    [taken |-> FALSE, serving |-> {}, waiting |-> {}, pc |-> "idle",
     room |-> NoRoom, victim |-> NoRoom]

\* a caller of wait_for_ticks_with_callback: where its coroutine stands (pc),
\* its count, the waits of wait_for_ticks it has left, the ticks that had
\* returned when it called (start), whether its waiter has been set (woken)
\* and its callback_event (event_set); runs and ran_at note the runs of its
\* callback and the tick_counter of the latest one, result what it returned
IdleCaller ==
    [pc |-> "idle", count |-> 0, left |-> 0, start |-> 0, woken |-> FALSE,
     event_set |-> FALSE, runs |-> 0, ran_at |-> 0, result |-> "none"]

NumCallers == 2
Callers == 1..NumCallers
NoCaller == 0

\* the tick synchronisation of the TimeManager: where the tick thread stands
\* in tick, _tick_waiters, _post_tick_callback with its _post_tick_event
\* (the caller that set them), the callback that runs
NoSync ==
    [tick |-> "idle", tick_waiters |-> {}, post_tick_callback |-> NoCaller,
     running |-> NoCaller, callers |-> [c \in Callers |-> IdleCaller]]

NoThreads ==
    /\ lock = {}
    /\ thread = IdleThread
    /\ snapshot = NoSnapshot
    /\ sync = NoSync

\* a room opened at initialTemp = max_temp, with the target it has been given since
NewRoom(status, target_temp) ==
    [status |-> status, current_temp |-> temperature.max_temp,
     target_temp |-> target_temp,
     initial_temp |-> temperature.max_temp, speed |-> "MID", is_serving |-> FALSE,
     pending_target_temp |-> NoTemp, last_temp_change_timestamp |-> NoTime,
     manual_powered_off |-> FALSE, mode |-> "cool"]

\* TimeManager(settings, event_bus) and the services that may hold it
NewTimeManager(attached) ==
    [attached |-> attached, fee_callback |-> attached, timers |-> <<>>,
     room_to_timer |-> [r \in Rooms |-> [k \in TimerTypes |-> 0]],
     next_id |-> 1, tick_counter |-> 0, tick_interval |-> 100,
     detail_timers |-> [r \in Rooms |-> 0], published |-> <<>>]

InitWith(status, target_temp, billing_attached) ==
    /\ rooms = [r \in Rooms |-> NewRoom(status, target_temp)]
    /\ services = <<>>
    /\ waits = <<>>
    /\ details = [r \in Rooms |-> <<>>]
    /\ current = [r \in Rooms |-> 0]
    /\ billing = billing_attached
    /\ max_concurrent \in 1..MaxConcurrent
    /\ now = 0
    /\ stay = [r \in Rooms |-> 0]
    /\ orders = [r \in Rooms |-> <<>>]
    /\ bills = [r \in Rooms |-> <<>>]
    /\ tm = NewTimeManager(FALSE)
    /\ last = [op |-> "init", room |-> NoRoom, speed |-> "MID", ev |-> <<>>]
    /\ reply = NoReply
    /\ bus = AsyncEventBus(MaxQueue)
    /\ NoThreads

\* ------------------------------------------- the scheduler's public API
\* Scheduler over the repository with no BillingService attached, every room
\* occupied: the calls are on_new_request, release_service, cancel_request, tick_1s.
Init == InitWith("OCCUPIED", temperature.default_target, FALSE)

\* the fan speeds the guest of room r asks for
RequestSpeeds(r) ==
    IF r = 1 THEN {"LOW", "MID"} ELSE IF r = 2 THEN {"MID"} ELSE {"MID", "HIGH"}

OnNewRequest(r, p) == Commit(on_new_request(St, r, p), "on_new_request", r, p)

ReleaseService(r) == Commit(release_service(St, r), "release_service", r, "MID")

CancelRequest(r) == Commit(cancel_request(St, r), "cancel_request", r, "MID")

\* the clock loop: one second passes, then tick_1s
Tick == Commit(tick_1s([St EXCEPT !.now = @ + 1]), "tick_1s", NoRoom, "MID")

Next ==
    \/ \E r \in Rooms : \E p \in RequestSpeeds(r) : OnNewRequest(r, p)
    \/ \E r \in Rooms : ReleaseService(r)
    \/ \E r \in Rooms : CancelRequest(r)
    \/ Tick

Spec == Init /\ [][Next]_vars

\* ------------------------------------------ front desk and room panels
\* The whole backend: rooms just opened and vacant, the BillingService attached
\* to the scheduler, guests checking in and out of one room and using its
\* panel, a neighbour using theirs, the clock loop ticking.
InitBill == InitWith("VACANT", temperature.max_temp, TRUE) /\ max_concurrent = 1

\* the room whose guests come and go; the next room is a neighbour who only
\* switches the air conditioning on and off
Guest == CHOOSE r \in Rooms : \A q \in Rooms : r <= q
Neighbour == Guest + 1

\* the checkInDate of a request: the present instant, or a date-only string of
\* the day, which parses to its midnight
CheckInDates(t) == {t, 0}

\* the state a use case leaves
Save(st) == Bounded(st) /\ Store(st) /\ UNCHANGED <<last, reply, bus, threads>>

CheckIn(r, d) == Save(check_in([St EXCEPT !.now = @ + 1], r, d))

PowerOn(r, t, p) == Save(power_on(St, r, "", t, p))

ChangeSpeed(r, p) == Save(change_speed(St, r, p))

PowerOff(r) == Save(power_off(St, r))

CheckOut(r) == Save(check_out(St, r))

TickBill == Save(tick_1s([St EXCEPT !.now = @ + 1]))

\* a guest uses the panel of a room while staying in it
Staying(r) == rooms[r].status = "OCCUPIED" /\ stay[r] > 0

NextBill ==
    \/ \E d \in CheckInDates(now + 1) : CheckIn(Guest, d)
    \/ \E p \in RequestSpeeds(Guest) :
           Staying(Guest) /\ PowerOn(Guest, temperature.default_target, p)
    \/ PowerOn(Neighbour, temperature.default_target, "MID")
    \/ \E p \in RequestSpeeds(Guest) : Staying(Guest) /\ ChangeSpeed(Guest, p)
    \/ Staying(Guest) /\ PowerOff(Guest)
    \/ PowerOff(Neighbour)
    \/ CheckOut(Guest)
    \/ TickBill

SpecBill == InitBill /\ [][NextBill]_vars

\* --------------------------------------------------------- room panels
\* The endpoints of ac_router as a guest uses them, setting mode, target
\* temperature and speed, while the clock loop ticks.
InitPanel == InitWith("OCCUPIED", temperature.default_target, TRUE) /\ max_concurrent = 1

\* what a panel can send as mode and as speed
PanelModes == {"", "heat"}
PanelSpeeds == {"MID", "TURBO"}

\* the mode a power-on runs in
ActiveMode(r, mode) == IF mode # "" THEN mode ELSE rooms[r].mode

PanelPowerOn(r, mode, t, p) ==
    Answer(power_on(St, r, mode, t, p), "power_on", r, ActiveMode(r, mode), t, p)

PanelChangeTemp(r, t) ==
    Answer(ac_router_change_temp(St, r, t), "change_temp", r, rooms[r].mode, t, "")

PanelChangeSpeed(r, p) ==
    Answer(ac_router_change_speed(St, r, p), "change_speed", r, rooms[r].mode, NoTemp, p)

NextPanel ==
    \/ \E mode \in PanelModes : \E t \in {NoTemp, temperature.default_target} :
           \E p \in PanelSpeeds : PanelPowerOn(Guest, mode, t, p)
    \/ \E t \in Temps : PanelChangeTemp(Guest, t)
    \/ \E p \in PanelSpeeds : PanelChangeSpeed(Guest, p)
    \/ TickBill

SpecPanel == InitPanel /\ [][NextPanel]_vars

\* ------------------------------------------- time manager and its clients
\* TimeManager with the BillingService and the front desk attached to it and
\* BillingService.tick_fee bound as its fee callback. The scheduler that runs
\* on the TimeManager is represented by the calls it can make: on the timers
\* of the rooms and on the detail records of the BillingService.
WiredTimeManager == [NewTimeManager(TRUE) EXCEPT !.fee_callback = TRUE]

InitTimers ==
    /\ rooms = [r \in Rooms |->
                   IF r = Guest THEN NewRoom("VACANT", temperature.max_temp)
                   ELSE NewRoom("OCCUPIED", temperature.default_target)]
    /\ services = <<>>
    /\ waits = <<>>
    /\ details = [r \in Rooms |-> <<>>]
    /\ current = [r \in Rooms |-> 0]
    /\ billing = TRUE
    /\ max_concurrent = 1
    /\ now = 0
    /\ stay = [r \in Rooms |-> 0]
    /\ orders = [r \in Rooms |-> <<>>]
    /\ bills = [r \in Rooms |-> <<>>]
    /\ tm = WiredTimeManager
    /\ last = [op |-> "init", room |-> NoRoom, speed |-> "MID", ev |-> <<>>]
    /\ reply = NoReply
    /\ bus = AsyncEventBus(MaxQueue)
    /\ NoThreads

\* the wait a scheduler asks for: one time slice longer than the shortest
WaitSeconds == time_slice_seconds + 1

\* the room whose detail records the scheduler opens and closes
Tenant == Neighbour + 1

\* the room whose waits are created with the time slice enforced
Enforced == Neighbour

\* tick intervals an administrator may ask for, in hundredths of a second
TickIntervals == {0, 10}

CreateServiceTimer(r, p) ==
    Save([St EXCEPT !.tm = create_service_timer(@, r, p)])

CreateWaitTimer(r, p) ==
    Save([St EXCEPT !.tm = create_wait_timer(@, r, p, WaitSeconds, r = Enforced)])

CancelTimer(timer_id) ==
    /\ has_timer(tm, timer_id)
    /\ Save([St EXCEPT !.tm = cancel_timer(@, timer_id)])

StartRecord(r, p) == Save(start_new_detail_record(St, r, p, now))

CloseRecord(r) ==
    /\ current[r] # 0
    /\ Save(close_current_detail_record(St, r, now))

SetTickInterval(seconds) ==
    Save([St EXCEPT !.tm = set_tick_interval(@, seconds)])

\* the clock loop: one interval passes, then TimeManager.tick
TimerTick == Save(tick([St EXCEPT !.now = @ + 1]))

NextTimers ==
    \/ \E p \in RequestSpeeds(Tenant) : CreateServiceTimer(Tenant, p)
    \/ \E r \in Rooms \ {Tenant} : CreateWaitTimer(r, "MID")
    \/ \E i \in 1..Len(tm.timers) :
           /\ tm.timers[i].timer_type \in {"SERVICE", "WAIT"}
           /\ CancelTimer(tm.timers[i].timer_id)
    \/ \E p \in RequestSpeeds(Tenant) : StartRecord(Tenant, p)
    \/ CloseRecord(Tenant)
    \/ \E seconds \in TickIntervals : SetTickInterval(seconds)
    \/ TimerTick

SpecTimers == InitTimers /\ [][NextTimers]_vars

\* The front desk on the same wiring: guests check in and out of one room,
\* the scheduler opens and closes detail records for it, the clock loop ticks.
NextDesk ==
    \/ \E d \in CheckInDates(now + 1) : CheckIn(Guest, d)
    \/ CheckOut(Guest)
    \/ \E p \in RequestSpeeds(Guest) : Staying(Guest) /\ StartRecord(Guest, p)
    \/ Staying(Guest) /\ CloseRecord(Guest)
    \/ Staying(Guest) /\ PowerOff(Guest)
    \/ TimerTick

SpecDesk == InitTimers /\ [][NextDesk]_vars

\* ------------------------------------------------------ timer registry
\* The registry of the TimeManager by itself: timers are created, restored
\* from what an earlier process persisted, cancelled and ticked.
\* the timer ids an earlier process has persisted
PersistedIds == {MaxTimers + 1 + k : k \in 1..MaxPersisted}

\* the types of timer a room has one of
SingleTypes == TimerTypes \ {"DETAIL"}

CreateAccommodationTimer(r) ==
    Save([St EXCEPT !.tm = create_accommodation_timer(@, r)])

\* the timer of a ServiceObject that was serving comes back as it was created
RestoreTimer(timer_id, timer_type, r) ==
    Save([St EXCEPT !.tm = restore_timer(@, timer_id, timer_type, r,
                                         IF timer_type = "ACCOMMODATION" THEN "" ELSE "MID",
                                         0, 0, 0, FALSE)])

NextRegistry ==
    \/ CreateServiceTimer(Tenant, "MID")
    \/ CreateWaitTimer(Tenant, "MID")
    \/ CreateAccommodationTimer(Tenant)
    \/ \E timer_id \in PersistedIds : RestoreTimer(timer_id, "SERVICE", Tenant)
    \/ \E i \in 1..Len(tm.timers) : CancelTimer(tm.timers[i].timer_id)
    \/ TimerTick

SpecRegistry == InitTimers /\ [][NextRegistry]_vars

\* ------------------------------------------------------ event bus
\* The event bus between its publishers and its consumer: handlers are
\* registered, the bus is started and stopped, events are published from the
\* tick (publish_sync) and from coroutines (publish), the consumer takes them.
\* the event types published and the handlers registered for them
BusTypes == {"TIME_SLICE_EXPIRED", "AUTO_RESTART_NEEDED"}
BusHandlers == {"raising", "returning"}
MaxPutters == 1

\* a call on the bus; the rest of the program stands still
OnBus(b) ==
    /\ b.issued <= MaxEvents
    /\ bus' = b
    /\ UNCHANGED <<stored, last, reply, threads>>

RegisterHandler(event_type, handler) ==
    /\ \A i \in 1..Len(bus.handlers[event_type]) : bus.handlers[event_type][i] # handler
    /\ OnBus(register_handler(bus, event_type, handler))

PublishSync(event_type, r) ==
    /\ bus.retrying = <<>>
    /\ OnBus(publish_sync(bus, BusEvent(bus, event_type, r)))

PublishSyncRetry ==
    /\ bus.retrying # <<>>
    /\ OnBus(publish_sync_retry(bus))

PublishAwait(event_type, r) ==
    /\ Len(bus.putters) < MaxPutters
    /\ OnBus(publish(bus, BusEvent(bus, event_type, r)))

PutterResumes ==
    /\ bus.putters # <<>>
    /\ ~full(bus)
    /\ OnBus(PutterResumed(bus))

Consume ==
    /\ bus.consumer_task = "running"
    /\ bus.queue # <<>>
    /\ OnBus(_consume_loop(bus))

Start == OnBus(start(bus))

Stop == bus.running /\ OnBus(stop(bus))

NextBus ==
    \/ \E t \in BusTypes : \E h \in BusHandlers : RegisterHandler(t, h)
    \/ \E t \in BusTypes : PublishSync(t, Guest)
    \/ PublishSyncRetry
    \/ \E t \in BusTypes : PublishAwait(t, Guest)
    \/ PutterResumes
    \/ Consume
    \/ Start
    \/ Stop

SpecBus == InitTimers /\ [][NextBus]_vars

\* ----------------------------------------------------------- clock loop
\* _clock_loop of main.py: it calls TimeManager.tick, prints the exception a
\* tick ends with, sleeps and calls again. The repository may be unavailable
\* when a stage of the tick reads the rooms.
ClockTick == Commit(tick([St EXCEPT !.now = @ + 1]), "tick", NoRoom, "MID")

FailingTick(failing) ==
    Commit(tick_raising([St EXCEPT !.now = @ + 1], failing), failing, NoRoom, "MID")

NextClock ==
    \/ CreateServiceTimer(Tenant, "MID")
    \/ CreateWaitTimer(Neighbour, "MID")
    \/ \E i \in 1..Len(tm.timers) : CancelTimer(tm.timers[i].timer_id)
    \/ ClockTick
    \/ \E failing \in RepositoryStages : FailingTick(failing)

SpecClock == InitTimers /\ [][NextClock]_vars

\* ------------------------------------------- tick and request threads
\* The two threads of test_scheduler_lock.py: the tick thread takes the
\* scheduler lock, works and releases it; the thread of an HTTP request calls
\* on_new_request, which takes the lock for the time it runs.
InitLock == InitWith("OCCUPIED", temperature.default_target, FALSE) /\ max_concurrent = 1

TickAcquires ==
    /\ "tick" \notin lock
    /\ lock_is_free(lock, "tick")
    /\ lock' = acquire_lock(lock, "tick")
    /\ UNCHANGED <<stored, last, reply, bus, thread, snapshot, sync>>

\* the tick works on its timers and rooms while it holds the lock
TickInside == "tick" \in lock /\ TimerTick

TickReleases ==
    /\ "tick" \in lock
    /\ lock' = release_lock(lock, "tick")
    /\ UNCHANGED <<stored, last, reply, bus, thread, snapshot, sync>>

\* deps.scheduler.on_new_request(room, speed) reaches `with self._lock`
HttpCalls(r, p) ==
    /\ thread.pc = "idle"
    /\ thread' = [IdleThread EXCEPT !.pc = "blocked", !.room = r, !.speed = p,
                                    !.waited = "tick" \in lock]
    /\ UNCHANGED <<stored, last, reply, bus, lock, snapshot, sync>>

HttpEnters ==
    /\ thread.pc = "blocked"
    /\ lock_is_free(lock, "http")
    /\ lock' = acquire_lock(lock, "http")
    /\ thread' = [thread EXCEPT !.pc = "inside"]
    /\ UNCHANGED <<stored, last, reply, bus, snapshot, sync>>

\* the body of on_new_request, and the end of the with block
HttpRuns ==
    /\ thread.pc = "inside"
    /\ Bounded(on_new_request(St, thread.room, thread.speed))
    /\ Store(on_new_request(St, thread.room, thread.speed))
    /\ lock' = release_lock(lock, "http")
    /\ thread' = [thread EXCEPT !.pc = "idle"]
    /\ UNCHANGED <<last, reply, bus, snapshot, sync>>

NextLock ==
    \/ TickAcquires
    \/ TickInside
    \/ TickReleases
    \/ \E r \in {Guest, Neighbour} : \E p \in RequestSpeeds(r) : HttpCalls(r, p)
    \/ HttpEnters
    \/ HttpRuns

\* the tick thread leaves the lock after its work and sleeps for the tick
\* interval before it takes it again, so a waiting request gets the lock
\* and a thread inside on_new_request runs it to its end: WF_vars(HttpRuns),
\* with ENABLED <<HttpRuns>>_vars written as what it amounts to
HttpRunsOn == <>[](thread.pc = "inside") => []<><<HttpRuns>>_vars

SpecLock ==
    /\ InitLock
    /\ [][NextLock]_vars
    /\ WF_vars(TickReleases)
    /\ SF_vars(HttpEnters)
    /\ HttpRunsOn

\* ------------------------------------------------- calls on any room
\* The front desk and the panel endpoints take the room_id they are given:
\* none of them looks at the status of the room before it acts.
CallCheckIn(r, d) ==
    Commit(check_in([St EXCEPT !.now = @ + 1], r, d), "check_in", r, "MID")

CallCheckOut(r) == Commit(check_out(St, r), "check_out", r, "MID")

CallPowerOn(r, p) ==
    Commit(power_on(St, r, "", temperature.default_target, p), "power_on", r, p)

CallChangeSpeed(r, p) ==
    Commit(ac_router_change_speed(St, r, p), "change_speed", r, p)

CallChangeTemp(r, t) ==
    Commit(ac_router_change_temp(St, r, t), "change_temp", r, "MID")

CallPowerOff(r) == Commit(power_off(St, r), "power_off", r, "MID")

NextCalls ==
    \/ \E d \in CheckInDates(now + 1) : CallCheckIn(Guest, d)
    \/ CallCheckOut(Guest)
    \/ \E r \in {Guest, Neighbour} : \E p \in RequestSpeeds(r) : CallPowerOn(r, p)
    \/ \E r \in {Guest, Neighbour} : \E p \in RequestSpeeds(r) : CallChangeSpeed(r, p)
    \/ \E t \in {temperature.default_target, temperature.max_temp} :
           CallChangeTemp(Guest, t)
    \/ \E r \in {Guest, Neighbour} : CallPowerOff(r)

\* rooms just opened and vacant, one object served at a time
InitCalls == InitWith("VACANT", temperature.max_temp, FALSE) /\ max_concurrent = 1

SpecCalls == InitCalls /\ [][NextCalls]_vars

\* ----------------------------------------------------- release calls
\* release_service is called for rooms in service, rooms that wait and rooms
\* that have asked for nothing, beside requests, a withdrawal, a wait timer
\* of the TimeManager and the ticks of the scheduler.
ReleaseCalled(r) ==
    /\ Bounded(release_service(St, r))
    /\ Store(release_service(St, r))
    /\ last' = [op |-> "release_service", room |-> r, speed |-> "MID", ev |-> <<>>]
    /\ UNCHANGED <<reply, bus, threads>>

NextRelease ==
    \/ \E r \in {Guest, Neighbour} : \E p \in RequestSpeeds(r) : OnNewRequest(r, p)
    \/ \E r \in Rooms : ReleaseCalled(r)
    \/ CancelRequest(Guest)
    \/ CreateWaitTimer(Neighbour, "MID")
    \/ Tick

SpecRelease == InitTimers /\ [][NextRelease]_vars

\* ---------------------------------------------------- power-off calls
\* Guests switch the air conditioning of two rooms on and off while the
\* TimeManager ticks; the BillingService and its detail timers are attached.
PowerOffCalled(r) ==
    /\ Bounded(power_off(St, r))
    /\ Store(power_off(St, r))
    /\ last' = [op |-> "power_off", room |-> r, speed |-> "MID", ev |-> <<>>]
    /\ UNCHANGED <<reply, bus, threads>>

NextOff ==
    \/ \E p \in RequestSpeeds(Guest) : CallPowerOn(Guest, p)
    \/ CallPowerOn(Neighbour, "MID")
    \/ \E r \in {Guest, Neighbour} : PowerOffCalled(r)
    \/ ClockTick

SpecOff == InitTimers /\ [][NextOff]_vars

\* ------------------------------------------------------- mirrored fee
\* The timers of the rooms as the scheduler of the TimeManager keeps them: an
\* assignment creates the SERVICE timer of the room and opens its detail
\* record, a release cancels the one and closes the other. The room panel and
\* the monitor close the open record by themselves.
AssignTimers(r, p) ==
    Save(start_new_detail_record([St EXCEPT !.tm = create_service_timer(@, r, p)], r, p, now))

ReleaseTimers(r) ==
    /\ tm.room_to_timer[r]["SERVICE"] # 0
    /\ Save(close_current_detail_record(
                [St EXCEPT !.tm = cancel_timer(@, @.room_to_timer[r]["SERVICE"])], r, now))

NextFee ==
    \/ \E r \in Rooms \ {Guest} : \E p \in RequestSpeeds(r) : AssignTimers(r, p)
    \/ \E r \in Rooms \ {Guest} : ReleaseTimers(r)
    \/ \E r \in Rooms \ {Guest} : CloseRecord(r)
    \/ TimerTick

SpecFee == InitTimers /\ [][NextFee]_vars

\* ------------------------------------------------------ idle drift
\* Rooms served to their target, released, drifting back and restarted by the
\* scheduler's tick. The other rooms withdraw their requests while they wait
\* and are released by hand while they are served; the first guest asks again
\* while in a queue, so that room leaves the queues only when released at its
\* target. Nothing the tick
\* reads from the clock is stored here (no billing, no pending target), so
\* the tick is taken at the same clock reading.
DriftTick == Commit(tick_1s(St), "tick_1s", NoRoom, "MID")

NextDrift ==
    \/ \E r \in Rooms \ {Guest} : Has(waits, r) /\ CancelRequest(r)
    \/ \E r \in Rooms \ {Guest} : ReleaseService(r)
    \/ (Has(services, Guest) \/ Has(waits, Guest)) /\ OnNewRequest(Guest, "MID")
    \/ DriftTick

\* the tick can be taken and changes something
TickDue == Bounded(tick_1s(St)) /\ tick_1s(St) # St

\* the clock loop goes on calling the tick: weak fairness of DriftTick, with
\* what enables the tick written out
TickGoesOn == <>[]TickDue => []<><<DriftTick>>_vars

SpecDrift == Init /\ [][NextDrift]_vars /\ TickGoesOn

\* --------------------------------------------------- panel and tick
\* Two guests switch their air conditioning on and off and change its speed
\* while the scheduler ticks.
NextSwitch ==
    \/ \E r \in {Guest, Neighbour} : \E p \in RequestSpeeds(r) : CallPowerOn(r, p)
    \/ \E r \in {Guest, Neighbour} : \E p \in RequestSpeeds(r) : CallChangeSpeed(r, p)
    \/ \E r \in {Guest, Neighbour} : PowerOffCalled(r)
    \/ DriftTick

SpecSwitch == Init /\ [][NextSwitch]_vars

\* ------------------------------------------------------ long services
\* Rooms so far from their target that no service ends within the seconds
\* looked at: the guests ask for their speeds before the first tick, then the
\* clock loop ticks.
HotTemp == 2 * temperature.high_delta + 1

InitHot ==
    /\ rooms = [r \in Rooms |->
                   [NewRoom("OCCUPIED", temperature.default_target)
                        EXCEPT !.current_temp = HotTemp, !.initial_temp = HotTemp]]
    /\ services = <<>>
    /\ waits = <<>>
    /\ details = [r \in Rooms |-> <<>>]
    /\ current = [r \in Rooms |-> 0]
    /\ billing = FALSE
    /\ max_concurrent \in 1..MaxConcurrent
    /\ now = 0
    /\ stay = [r \in Rooms |-> 0]
    /\ orders = [r \in Rooms |-> <<>>]
    /\ bills = [r \in Rooms |-> <<>>]
    /\ tm = NewTimeManager(FALSE)
    /\ last = [op |-> "init", room |-> NoRoom, speed |-> "MID", ev |-> <<>>]
    /\ reply = NoReply
    /\ bus = AsyncEventBus(MaxQueue)
    /\ NoThreads

NextLong ==
    \/ \E r \in Rooms : \E p \in Speeds : now = 0 /\ OnNewRequest(r, p)
    \/ Tick

SpecLong == InitHot /\ [][NextLong]_vars

\* ---------------------------------------------------- tick synchronisation
\* The tick thread runs TimeManager.tick; the callers are coroutines of the
\* event loop. A coroutine runs from one await to the next without a break;
\* the tick thread and the event loop run side by side.
MaxCount == 2

\* wait_for_next_tick up to its await: the waiter joins _tick_waiters
wait_for_next_tick(s, c) ==
    [s EXCEPT !.tick_waiters = @ \cup {c}, !.callers[c].woken = FALSE]

\* wait_for_ticks_with_callback, once the count - 1 first ticks are waited
\* for: the callback and its event are put in the one slot, then the last
\* tick is waited for
register_callback(s, c) ==
    wait_for_next_tick([s EXCEPT !.post_tick_callback = c,
                                 !.callers[c].pc = "last_tick"], c)

\* the ticks that have returned
TicksReturned == tm.tick_counter - (IF sync.tick = "idle" THEN 0 ELSE 1)

wait_for_ticks_with_callback(s, c, count) ==
    IF count > 1
    THEN wait_for_next_tick([s EXCEPT !.callers[c].pc = "wait_for_ticks",
                                      !.callers[c].count = count,
                                      !.callers[c].left = count - 1,
                                      !.callers[c].start = TicksReturned], c)
    ELSE register_callback([s EXCEPT !.callers[c].count = count,
                                     !.callers[c].start = TicksReturned], c)

OnLoop(s) ==
    /\ sync' = s
    /\ UNCHANGED <<stored, last, reply, bus, lock, thread, snapshot>>

CallWithCallback(c, count) ==
    /\ sync.callers[c].pc = "idle"
    /\ OnLoop(wait_for_ticks_with_callback(sync, c, count))

\* wait_for_ticks goes on after a tick has set the waiter
WaitForTicksResumes(c) ==
    /\ sync.callers[c].pc = "wait_for_ticks"
    /\ sync.callers[c].woken
    /\ OnLoop(IF sync.callers[c].left > 1
              THEN wait_for_next_tick([sync EXCEPT !.callers[c].left = @ - 1], c)
              ELSE register_callback([sync EXCEPT !.callers[c].left = 0], c))

\* the last tick has set the waiter: callback_event is waited for
LastTickResumes(c) ==
    /\ sync.callers[c].pc = "last_tick"
    /\ sync.callers[c].woken
    /\ OnLoop([sync EXCEPT !.callers[c].pc = "callback_event"])

CallbackEventSet(c) ==
    /\ sync.callers[c].pc = "callback_event"
    /\ sync.callers[c].event_set
    /\ OnLoop([sync EXCEPT !.callers[c].pc = "done",
                           !.callers[c].result = "True"])

\* asyncio.TimeoutError on callback_event, taken only when nothing is left
\* that sets the event
CallbackEventTimesOut(c) ==
    /\ sync.callers[c].pc = "callback_event"
    /\ ~sync.callers[c].event_set
    /\ sync.post_tick_callback # c
    /\ OnLoop([sync EXCEPT !.callers[c].pc = "done",
                           !.callers[c].result = "False"])

\* tick up to the wake-up of the waiters
TickWakes ==
    /\ sync.tick = "idle"
    /\ Bounded(tick([St EXCEPT !.now = @ + 1]))
    /\ Store(tick([St EXCEPT !.now = @ + 1]))
    /\ sync' = [sync EXCEPT
                    !.tick = "notified",
                    !.tick_waiters = {},
                    !.callers = [c \in Callers |->
                                    IF c \in sync.tick_waiters
                                    THEN [@[c] EXCEPT !.woken = TRUE]
                                    ELSE @[c]]]
    /\ UNCHANGED <<last, reply, bus, lock, thread, snapshot>>

OnTickThread(s) ==
    /\ sync' = s
    /\ UNCHANGED <<stored, last, reply, bus, lock, thread, snapshot>>

\* tick calls the callback it finds in the slot
TickCallsBack ==
    /\ sync.tick = "notified"
    /\ sync.post_tick_callback # NoCaller
    /\ OnTickThread([sync EXCEPT
                         !.tick = "callback",
                         !.running = sync.post_tick_callback,
                         !.callers[sync.post_tick_callback].runs = @ + 1,
                         !.callers[sync.post_tick_callback].ran_at = tm.tick_counter])

\* the callback has returned: the event that is in the slot now is set and the
\* slot is emptied
CallbackReturns ==
    /\ sync.tick = "callback"
    /\ OnTickThread([sync EXCEPT
                         !.tick = "called_back",
                         !.running = NoCaller,
                         !.callers[sync.post_tick_callback].event_set = TRUE,
                         !.post_tick_callback = NoCaller])

TickReturns ==
    /\ \/ sync.tick = "notified" /\ sync.post_tick_callback = NoCaller
       \/ sync.tick = "called_back"
    /\ OnTickThread([sync EXCEPT !.tick = "idle"])

NextSync ==
    \/ \E c \in Callers : \E count \in 1..MaxCount : CallWithCallback(c, count)
    \/ \E c \in Callers : WaitForTicksResumes(c)
    \/ \E c \in Callers : LastTickResumes(c)
    \/ \E c \in Callers : CallbackEventSet(c)
    \/ \E c \in Callers : CallbackEventTimesOut(c)
    \/ TickWakes
    \/ TickCallsBack
    \/ CallbackReturns
    \/ TickReturns

SpecSync == InitTimers /\ [][NextSync]_vars

\* ------------------------------------------------ requests and monitor
\* Requests reach the scheduler from the room panels while the monitor reads
\* the rooms and the queues. A request that preempts goes through preempt
\* one repository call after the other; the monitor can read between them.
\* preempt up to the removal of the victim from the ServiceQueue
preempt_removed(st, victim) ==
    _close_detail_segment([st EXCEPT !.services = DictPop(@, victim.room_id)],
                          victim.room_id)

\* preempt from there up to the boost of the waiting objects
preempt_enqueued(st, victim, new_service) ==
    _boost_waiting_priority(_enqueue_waiting(st, victim, FALSE), new_service.speed)

\* the room on_new_request takes the service from, NoRoom if it does not preempt
VictimOf(st, r, p) ==
    IF Len(_remove_existing(st, r).services) < st.max_concurrent THEN NoRoom
    ELSE select_victim_by_rules(_remove_existing(st, r).services, p)

\* a request that does not preempt
PlainRequest(r, p) ==
    /\ thread.pc = "idle"
    /\ VictimOf(St, r, p) = NoRoom
    /\ Bounded(on_new_request(St, r, p))
    /\ Store(on_new_request(St, r, p))
    /\ UNCHANGED <<last, reply, bus, threads>>

\* on_new_request up to the call of preempt
PreemptCalled(r, p) ==
    /\ thread.pc = "idle"
    /\ VictimOf(St, r, p) # NoRoom
    /\ Store(_remove_existing(St, r))
    /\ thread' = [IdleThread EXCEPT
                      !.pc = "preempt", !.room = r, !.speed = p,
                      !.victim = VictimOf(St, r, p),
                      !.objects =
                          <<_remove_existing(St, r).services[
                                IndexOf(_remove_existing(St, r).services,
                                        VictimOf(St, r, p))],
                            ServiceObject(r, p)>>]
    /\ UNCHANGED <<last, reply, bus, lock, snapshot, sync>>

PreemptRemoves ==
    /\ thread.pc = "preempt"
    /\ Store(preempt_removed(St, thread.objects[1]))
    /\ thread' = [thread EXCEPT !.pc = "removed"]
    /\ UNCHANGED <<last, reply, bus, lock, snapshot, sync>>

PreemptEnqueues ==
    /\ thread.pc = "removed"
    /\ Store(preempt_enqueued(St, thread.objects[1], thread.objects[2]))
    /\ thread' = [thread EXCEPT !.pc = "enqueued"]
    /\ UNCHANGED <<last, reply, bus, lock, snapshot, sync>>

PreemptAssigns ==
    /\ thread.pc = "enqueued"
    /\ Store(assign_service(St, thread.objects[2]))
    /\ thread' = IdleThread
    /\ UNCHANGED <<last, reply, bus, lock, snapshot, sync>>

\* GET /monitor/rooms
ListRoomStatus ==
    /\ snapshot' = [taken |-> TRUE, serving |-> RoomIds(services),
                    waiting |-> RoomIds(waits), pc |-> thread.pc,
                    room |-> thread.room, victim |-> thread.victim]
    /\ UNCHANGED <<stored, last, reply, bus, lock, thread, sync>>

NextMonitor ==
    \/ \E r \in Rooms : \E p \in RequestSpeeds(r) : PlainRequest(r, p)
    \/ \E r \in Rooms : \E p \in RequestSpeeds(r) : PreemptCalled(r, p)
    \/ PreemptRemoves
    \/ PreemptEnqueues
    \/ PreemptAssigns
    \/ ListRoomStatus

SpecMonitor == InitLock /\ [][NextMonitor]_vars

\* ------------------------------------------------- what a step has done
\* The handler a step has run, from the note it leaves in last', and the
\* events that handler logged, each with the queues before and after it.
Handler(l) ==
    CASE l.op = "on_new_request" -> on_new_request(St, l.room, l.speed)
      [] l.op = "release_service" -> release_service(St, l.room)
      [] l.op = "cancel_request" -> cancel_request(St, l.room)
      [] l.op = "tick_1s" -> tick_1s([St EXCEPT !.now = @ + 1])
      [] OTHER -> St

StepLog == Handler(last').ev

Priority(o) == SPEED_PRIORITY(o.speed)
Entry(q, room_id) == q[IndexOf(q, room_id)]
Count(q, room_id) == Cardinality({i \in 1..Len(q) : q[i].room_id = room_id})

\* the rooms an event took out of, and put into, the ServiceQueue
Removed(e) == RoomIds(e.preS) \ RoomIds(e.postS)
Added(e) == RoomIds(e.postS) \ RoomIds(e.preS)

\* the serving objects of strictly lower priority than the request of event e
Lower(e) == {i \in 1..Len(e.preS) : Priority(e.preS[i]) < SPEED_PRIORITY(e.speed)}

FullBefore(e) == Len(e.preS) >= max_concurrent

\* P holds of every event of the step that is of this type
EveryEvent(type, P(_)) ==
    \A log \in {StepLog} :
        \A e \in {log[i] : i \in 1..Len(log)} : e.type = type => P(e)

\* ------------------------------------------------------------- claims
\* C1: in every reachable state the ServiceQueue holds at most
\* max_concurrent service objects.
C1_Capacity == Len(services) <= max_concurrent

\* a full ServiceQueue with a room kept waiting behind it
C1_Witness == Len(services) = max_concurrent /\ Len(waits) > 0

\* C2: in every reachable state each room has at most one ServiceObject,
\* counted over the ServiceQueue and the WaitingQueue together.
C2_OneObjectPerRoom ==
    \A r \in Rooms : Count(services, r) + Count(waits, r) <= 1

\* a room that was being served asks again and is now waiting, once
C2_Witness ==
    /\ last.op = "on_new_request"
    /\ Count(waits, last.room) = 1
    /\ Count(services, last.room) = 0
    /\ Len(services) = max_concurrent
    /\ rooms[last.room].speed # last.speed

\* C3: when a request of speed p finds the ServiceQueue full, every object it
\* takes out of service has a strictly lower priority than p, the lowest
\* priority among the strictly lower ones and the greatest served_seconds
\* among those of that priority; with no strictly lower object it takes none out.
VictimRule(e) ==
    /\ \A v \in Removed(e) :
         LET i == IndexOf(e.preS, v)
         IN  /\ i \in Lower(e)
             /\ \A j \in Lower(e) : Priority(e.preS[i]) <= Priority(e.preS[j])
             /\ \A j \in Lower(e) :
                    Priority(e.preS[j]) = Priority(e.preS[i])
                        => e.preS[j].served_seconds <= e.preS[i].served_seconds
    /\ Lower(e) = {} => Removed(e) = {}

C3_VictimSelection ==
    [][EveryEvent("request", LAMBDA e : FullBefore(e) => VictimRule(e))]_vars

\* a request has preempted the lowest of two slower serving rooms
C3_Witness ==
    /\ last.op = "on_new_request"
    /\ \E i \in 1..Len(last.ev) :
          /\ last.ev[i].path = "preempt"
          /\ Has(waits, last.ev[i].victim)
          /\ \E j \in 1..Len(services) :
                /\ services[j].room_id # last.room
                /\ Priority(services[j]) < SPEED_PRIORITY(last.speed)
                /\ Priority(services[j]) > Priority(Entry(waits, last.ev[i].victim))

\* C4: after a preemption of v by the request s, s is in the ServiceQueue, v is
\* in the WaitingQueue with time_slice_enforced false, the ServiceQueue is as
\* long as before, every object that was already waiting with s's speed has
\* its priority_token raised by exactly one and no other token has changed.
PreemptEffect(e) ==
    \A v \in Removed(e) :
        /\ Has(e.postS, e.room)
        /\ Entry(e.postS, e.room).speed = e.speed
        /\ ~Has(e.postS, v)
        /\ Has(e.postW, v)
        /\ Entry(e.postW, v).time_slice_enforced = FALSE
        /\ Entry(e.postW, v).priority_token = Entry(e.preS, v).priority_token
        /\ Len(e.postS) = Len(e.preS)
        /\ \A k \in 1..Len(e.preW) :
             LET o == e.preW[k]
             IN  /\ Has(e.postW, o.room_id)
                 /\ Entry(e.postW, o.room_id).priority_token =
                        IF o.speed = e.speed THEN o.priority_token + 1
                        ELSE o.priority_token

C4_PreemptEffect ==
    [][EveryEvent("request", LAMBDA e : FullBefore(e) => PreemptEffect(e))]_vars

\* a preemption has raised the token of a room waiting at the new speed
C4_Witness ==
    /\ last.op = "on_new_request"
    /\ \E i \in 1..Len(last.ev) :
          /\ last.ev[i].path = "preempt"
          /\ \E k \in 1..Len(waits) :
                /\ waits[k].room_id # last.ev[i].victim
                /\ waits[k].speed = last.speed
                /\ waits[k].priority_token > 0

\* C5: a request of speed p that finds the ServiceQueue full with no serving
\* object of strictly lower priority is put in the WaitingQueue, with
\* time_slice_enforced true exactly when some serving object has speed p.
WaitEffect(e) ==
    Lower(e) = {} =>
        /\ Has(e.postW, e.room)
        /\ ~Has(e.postS, e.room)
        /\ Entry(e.postW, e.room).speed = e.speed
        /\ Entry(e.postW, e.room).time_slice_enforced
               = (\E j \in 1..Len(e.preS) : e.preS[j].speed = e.speed)

C5_WaitOnFullQueue ==
    [][EveryEvent("request", LAMBDA e : FullBefore(e) => WaitEffect(e))]_vars

\* a request waits under the time slice behind a room of its own speed
C5_Witness ==
    /\ last.op = "on_new_request"
    /\ Has(waits, last.room)
    /\ Entry(waits, last.room).time_slice_enforced
    /\ \E i \in 1..Len(last.ev) : last.ev[i].path = "wait" /\ last.ev[i].room = last.room
    /\ \E j \in 1..Len(services) : services[j].speed = last.speed

\* C6: when the time slice of a waiting object w expires and the ServiceQueue
\* is not empty, the serving object v of greatest served_seconds is put in the
\* WaitingQueue with time_slice_enforced true and a fresh countdown of
\* time_slice_seconds, w is put in the ServiceQueue, and the ServiceQueue is
\* as long as before.
RotationRest(e) ==
    /\ Removed(e) # {}
    /\ \A v \in Removed(e) :
          /\ \A j \in 1..Len(e.preS) :
                 e.preS[j].served_seconds <= Entry(e.preS, v).served_seconds
          /\ Has(e.postW, v)
          /\ Entry(e.postW, v).time_slice_enforced
    /\ Has(e.postS, e.room)
    /\ ~Has(e.postW, e.room)
    /\ Len(e.postS) = Len(e.preS)

RotationCountdown(e) ==
    \A v \in Removed(e) : Entry(e.postW, v).wait_seconds = time_slice_seconds

C6_TimeSliceRotation ==
    [][EveryEvent("rotate", LAMBDA e : RotationRest(e) /\ RotationCountdown(e))]_vars

\* all of C6 but the countdown: who is rotated out, who is rotated in
RotationButCountdown == [][EveryEvent("rotate", RotationRest)]_vars

\* a tick has rotated a room out of service
RotationSeen ==
    /\ last.op = "tick_1s"
    /\ \E i \in 1..Len(last.ev) : last.ev[i].type = "rotate"

\* C7: filling free capacity promotes a waiting object whose key (priority of
\* its speed, priority_token, seconds waited) no other waiting object exceeds,
\* takes it out of the WaitingQueue and into the ServiceQueue, and goes on
\* until the ServiceQueue is full or the WaitingQueue is empty.
KeyExceeds(a, b) ==
    \/ Priority(a) > Priority(b)
    \/ Priority(a) = Priority(b) /\ a.priority_token > b.priority_token
    \/ /\ Priority(a) = Priority(b)
       /\ a.priority_token = b.priority_token
       /\ a.total_waited_seconds > b.total_waited_seconds

PromoteEffect(e) ==
    /\ Added(e) = {e.room}
    /\ Len(e.preS) < max_concurrent
    /\ Has(e.preW, e.room)
    /\ \A k \in 1..Len(e.preW) : ~KeyExceeds(e.preW[k], Entry(e.preW, e.room))
    /\ ~Has(e.postW, e.room)
    /\ Len(e.postW) = Len(e.preW) - 1
    /\ Entry(e.postS, e.room).speed = Entry(e.preW, e.room).speed

C7_FillCapacity ==
    [][/\ EveryEvent("promote", PromoteEffect)
       /\ last'.op \in {"release_service", "tick_1s"}
              => (Len(services') >= max_concurrent \/ Len(waits') = 0)]_vars

\* a release has promoted one of several waiting rooms
C7_Witness ==
    /\ last.op = "release_service"
    /\ Len(waits) > 0
    /\ \E i \in 1..Len(last.ev) :
          /\ last.ev[i].type = "promote"
          /\ Has(services, last.ev[i].room)
          /\ \E k \in 1..Len(waits) :
                KeyExceeds(Entry(services, last.ev[i].room), waits[k])

\* C8: in every reachable state each room has at most one detail record that
\* is still open (ended_at not set).
OpenRecords(r) == {i \in 1..Len(details[r]) : details[r][i].ended_at = NoTime}

C8_OneOpenRecord == \A r \in Rooms : Cardinality(OpenRecords(r)) <= 1

\* a room with a closed segment and, after it, an open one
C8_Witness ==
    \E r \in Rooms :
        /\ Len(details[r]) = 2
        /\ details[r][1].ended_at # NoTime
        /\ details[r][2].ended_at = NoTime
        /\ details[r][1].speed # details[r][2].speed

\* C9: every ACBill has total_fee equal to the sum of fee_value over its
\* details, period_start the least started_at and period_end the greatest
\* ended_at among them.
RECURSIVE SumFees(_, _)
SumFees(records, ids) ==
    IF ids = <<>> THEN 0
    ELSE records[Head(ids)].fee_value + SumFees(records, Tail(ids))

BillAddsUp(r, b) ==
    LET ids == {b.details[k] : k \in 1..Len(b.details)}
    IN  /\ b.total_fee = SumFees(details[r], b.details)
        /\ \E i \in ids : b.period_start = details[r][i].started_at
        /\ \A i \in ids : b.period_start <= details[r][i].started_at
        /\ \E i \in ids : b.period_end = details[r][i].ended_at
        /\ \A i \in ids : details[r][i].ended_at <= b.period_end

C9_BillTotals ==
    \A r \in Rooms : \A k \in 1..Len(bills[r]) : BillAddsUp(r, bills[r][k])

\* a bill of two segments, with a fee and over more than an instant
C9_Witness ==
    \E r \in Rooms : \E k \in 1..Len(bills[r]) :
        LET b == bills[r][k]
        IN  /\ Len(b.details) = 2
            /\ b.total_fee > 0
            /\ b.period_start < b.period_end

\* C10: every detail record of a check-out's ACBill belongs to the stay that
\* is checked out, and every record of that stay closed by then is in it.
BillOfTheStay(r, b) ==
    LET ids == {b.details[k] : k \in 1..Len(b.details)}
    IN  /\ \A i \in ids : details[r][i].stay = b.stay
        /\ \A i \in 1..b.upto : details[r][i].stay = b.stay => i \in ids

C10_BillOfTheStay ==
    \A r \in Rooms : \A k \in 1..Len(bills[r]) : BillOfTheStay(r, bills[r][k])

\* the same while every check-in carried the instant it was made at
DatesAreTrue(r) == \A k \in 1..Len(orders[r]) : orders[r][k].check_in_at = orders[r][k].at

BillOfTheStayWhenDatesAreTrue ==
    \A r \in Rooms : DatesAreTrue(r) =>
        \A k \in 1..Len(bills[r]) : BillOfTheStay(r, bills[r][k])

\* a second stay has been billed while every date was true
SecondStayBilled ==
    \E r \in Rooms : \E k \in 1..Len(bills[r]) :
        DatesAreTrue(r) /\ bills[r][k].stay = 2

\* a record billed at the check-out of one stay and again at that of the next
EarlierStayBilledAgain ==
    \E r \in Rooms :
        /\ Len(bills[r]) = 2
        /\ bills[r][1].stay = 1
        /\ bills[r][2].stay = 2
        /\ \E i \in 1..Len(details[r]) :
              /\ details[r][i].stay = 1
              /\ \E k \in 1..Len(bills[r][1].details) : bills[r][1].details[k] = i
              /\ \E k \in 1..Len(bills[r][2].details) : bills[r][2].details[k] = i


\* C11: the fee_value of a detail record is the increment of its speed,
\* rate_per_min * price_per_unit for one tick, times the number of ticks that
\* have passed while it was open: up to its closing for a closed record, up to
\* the present tick for the open one, and 0 for a record open for no tick.
TicksOpen(record) ==
    (IF record.ended_at = NoTime THEN tm.tick_counter ELSE record.tick_closed)
        - record.tick_opened

LeavesAsIs(st) ==
    /\ st.rooms = rooms
    /\ st.services = services
    /\ st.waits = waits
    /\ st.details = details
    /\ st.current = current
    /\ st.tm = tm
    /\ st.orders = orders
    /\ st.bills = bills

C12_CheckOutWithoutOrder == ~Staying(Guest) => LeavesAsIs(check_out(St, Guest))

\* a second check-out of a stay that has been billed, and bills it once more
SecondCheckOutBillsAgain ==
    /\ ~Staying(Guest)
    /\ Len(bills[Guest]) = 1
    /\ Len(check_out(St, Guest).bills[Guest]) = 2

\* C13: a check_out of an occupied room that succeeds leaves the room VACANT
\* and not serving, in neither queue, without an open detail record and
\* without any SERVICE, WAIT, DETAIL or ACCOMMODATION timer.
TimersOf(r) == {i \in 1..Len(tm.timers) : tm.timers[i].room_id = r}

Cleared(r) ==
    /\ rooms[r].status = "VACANT"
    /\ ~rooms[r].is_serving
    /\ IndexOf(services, r) = 0
    /\ IndexOf(waits, r) = 0
    /\ OpenRecords(r) = {}
    /\ current[r] = 0
    /\ TimersOf(r) = {}

C13_CheckOutClears ==
    [][(Staying(Guest) /\ rooms'[Guest].status = "VACANT") => Cleared(Guest)']_vars

\* the room checked out with the ACCOMMODATION timer of its stay still running
AccommodationTimerLeft ==
    /\ rooms[Guest].status = "VACANT"
    /\ \E i \in TimersOf(Guest) : tm.timers[i].timer_type = "ACCOMMODATION"

\* when every order carries the instant of its check-in, the check_out clears
ClearsWhenDatesAreTrue ==
    [][(/\ Staying(Guest)
        /\ rooms'[Guest].status = "VACANT"
        /\ DatesAreTrue(Guest))
       => Cleared(Guest)']_vars

\* C14: check_in of a room whose status is OCCUPIED is rejected: it creates no
\* accommodation order and no accommodation timer and changes no field of
\* the room.
C14_CheckInOccupied ==
    rooms[Guest].status = "OCCUPIED" =>
        \A d \in CheckInDates(now + 1) :
            LeavesAsIs(check_in([St EXCEPT !.now = @ + 1], Guest, d))

\* an occupied room checked in once more: a second order, the ACCOMMODATION
\* timer of the first replaced by a new one
SecondOrderWhileOccupied ==
    /\ rooms[Guest].status = "OCCUPIED"
    /\ Len(orders[Guest]) = 1
    /\ \E d \in CheckInDates(now + 1) :
           /\ Len(check_in([St EXCEPT !.now = @ + 1], Guest, d).orders[Guest]) = 2
           /\ ~has_timer(check_in([St EXCEPT !.now = @ + 1], Guest, d).tm,
                         orders[Guest][1].timer_id)

\* C15: a power_on or change_temp request whose target temperature is outside
\* the range of the room's active mode is rejected with an error and leaves
\* the rooms and both queues as they were.
OutOfRange(mode, t) ==
    /\ t # NoTemp
    /\ IF mode = "heat"
       THEN t < temperature.heat_range[1] \/ t > temperature.heat_range[2]
       ELSE t < temperature.cool_range[1] \/ t > temperature.cool_range[2]

PowerOnRefused ==
    /\ reply.op = "power_on"
    /\ OutOfRange(reply.mode, reply.target_temp)
    /\ reply.error = "TemperatureRangeError"

\* C16: a request whose speed is not one of HIGH, MID, LOW is rejected with
\* an error, and no ServiceObject in either queue and no detail record ever
\* carries such a speed.
C16_InvalidSpeedRejected ==
    /\ (reply.op \in {"power_on", "change_speed"} /\ reply.speed \notin Speeds)
           => reply.error # ""
    /\ \A i \in 1..Len(services) : services[i].speed \in Speeds
    /\ \A i \in 1..Len(waits) : waits[i].speed \in Speeds
    /\ \A r \in Rooms : \A i \in 1..Len(details[r]) : details[r][i].speed \in Speeds

\* a power_on with an unknown speed answered without error, the room served
\* at that speed and billed at the rate of MID
InvalidSpeedServed ==
    /\ reply.op = "power_on"
    /\ reply.speed \notin Speeds
    /\ reply.error = ""
    /\ \E i \in 1..Len(services) :
           /\ services[i].room_id = reply.room
           /\ services[i].speed = reply.speed
    /\ \E i \in OpenRecords(reply.room) :
           /\ details[reply.room][i].speed = reply.speed
           /\ details[reply.room][i].rate_per_min = _rate_for_speed("MID")

\* the change-speed endpoint does reject an unknown speed
ChangeSpeedChecksSpeed ==
    (reply.op = "change_speed" /\ reply.speed \notin Speeds)
        => (reply.error # "" /\ ~reply.changed)

\* C17: a target-temperature change of a room that arrives less than
\* change_temp_ms after the last accepted one is only buffered as
\* pending_target_temp, replacing what was pending, and target_temp stays; a
\* change outside the window is accepted at once. A tick at which
\* change_temp_ms has passed since the last accepted change makes the pending
\* value the target and clears it, an earlier tick leaves both. So target_temp
\* only ever becomes the value just asked for or the value that was pending.
InWindow(room, t) ==
    /\ room.last_temp_change_timestamp # NoTime
    /\ t - room.last_temp_change_timestamp < throttle.change_temp

Buffers(r, t) ==
    LET after == ac_router_change_temp(St, r, t).rooms[r]
    IN  IF InWindow(rooms[r], now)
        THEN /\ after.target_temp = rooms[r].target_temp
             /\ after.pending_target_temp = t
             /\ after.last_temp_change_timestamp = rooms[r].last_temp_change_timestamp
        ELSE /\ after.target_temp = t
             /\ after.pending_target_temp = NoTemp
             /\ after.last_temp_change_timestamp = now

Applies(r) ==
    LET after == tick_1s([St EXCEPT !.now = @ + 1]).rooms[r]
    IN  IF rooms[r].pending_target_temp # NoTemp /\ ~InWindow(rooms[r], now + 1)
        THEN /\ after.target_temp = rooms[r].pending_target_temp
             /\ after.pending_target_temp = NoTemp
        ELSE /\ after.target_temp = rooms[r].target_temp
             /\ after.pending_target_temp = rooms[r].pending_target_temp

TargetFrom(r) ==
    rooms'[r].target_temp # rooms[r].target_temp =>
        \/ rooms'[r].target_temp = reply'.target_temp /\ reply'.room = r
        \/ rooms'[r].target_temp = rooms[r].pending_target_temp

C17_ThrottleCoalescing ==
    /\ [](\A r \in Rooms : \A t \in Temps : ~OutOfRange(rooms[r].mode, t) => Buffers(r, t))
    /\ [](\A r \in Rooms : Applies(r))
    /\ [][\A r \in Rooms : TargetFrom(r)]_vars

\* a change buffered an instant after the accepted one, target_temp as it was
C17_Witness ==
    /\ reply.op = "change_temp"
    /\ rooms[reply.room].pending_target_temp = reply.target_temp
    /\ rooms[reply.room].target_temp # reply.target_temp
    /\ now > rooms[reply.room].last_temp_change_timestamp

\* C18: in a tick the auto-restart of a room is triggered if and only if the
\* room is OCCUPIED, not manual_powered_off, in neither queue, and its
\* current_temp is at least auto_restart_threshold away from its target_temp.
\* BeforeRestart is the state in which tick_1s makes the check.
BeforeRestart ==
    _update_room_temperatures(
        _advance_waiting(
            _advance_serving(
                _apply_pending_targets([St EXCEPT !.now = @ + 1]))))

InQueue(st, r) == Has(st.services, r) \/ Has(st.waits, r)

Deviates(st, r) ==
    Abs(st.rooms[r].current_temp - st.rooms[r].target_temp)
        >= temperature.auto_restart_threshold

NeedsRestart(st, r) ==
    /\ st.rooms[r].status = "OCCUPIED"
    /\ ~st.rooms[r].manual_powered_off
    /\ ~InQueue(st, r)
    /\ Deviates(st, r)

Restarted(r) ==
    ~InQueue(BeforeRestart, r) /\ InQueue(_handle_auto_restart(BeforeRestart), r)

C18_AutoRestartRule ==
    \A r \in Rooms : Restarted(r) <=> NeedsRestart(BeforeRestart, r)

\* a room switched off by its guest that the next tick_1s puts into a queue
ManualOffRestarted ==
    \E r \in Rooms :
        /\ rooms[r].manual_powered_off
        /\ ~InQueue(St, r)
        /\ InQueue(tick_1s([St EXCEPT !.now = @ + 1]), r)

\* what tick_1s does: the rule without manual_powered_off
RestartRuleOfScheduler ==
    \A r \in Rooms :
        Restarted(r) <=> /\ BeforeRestart.rooms[r].status = "OCCUPIED"
                         /\ ~InQueue(BeforeRestart, r)
                         /\ Deviates(BeforeRestart, r)

\* TimeManager.tick keeps the rule: AUTO_RESTART_NEEDED is published for the
\* rooms that are OCCUPIED, not manual_powered_off, without SERVICE or WAIT
\* timer and deviating, and for no other
BeforeCheck ==
    _tick_throttle_windows(
        _tick_temperatures(
            _tick_accommodation_timers(
                _tick_detail_timers(
                    _tick_wait_timers(
                        _tick_service_timers(
                            [St EXCEPT !.now = @ + 1, !.tm.published = <<>>]))))))

RestartPublished(st, r) ==
    \E i \in 1..Len(st.tm.published) :
        /\ st.tm.published[i].event_type = "AUTO_RESTART_NEEDED"
        /\ st.tm.published[i].room_id = r

RestartRuleOfTimeManager ==
    \A r \in Rooms :
        RestartPublished(_check_auto_restart(BeforeCheck), r)
            <=> /\ BeforeCheck.rooms[r].status = "OCCUPIED"
                /\ ~BeforeCheck.rooms[r].manual_powered_off
                /\ r \notin _get_active_service_rooms(BeforeCheck.tm)
                /\ r \notin _get_active_wait_rooms(BeforeCheck.tm)
                /\ Deviates(BeforeCheck, r)

\* a room switched off by its guest and deviating when the tick makes its check
ManualOffLeftAlone ==
    \E r \in Rooms :
        /\ BeforeCheck.rooms[r].manual_powered_off
        /\ BeforeCheck.rooms[r].status = "OCCUPIED"
        /\ Deviates(BeforeCheck, r)
        /\ ~RestartPublished(_check_auto_restart(BeforeCheck), r)

\* C19: a tick publishes TIME_SLICE_EXPIRED for a WAIT timer exactly when,
\* after the update of that tick, the timer has remaining_seconds = 0 and
\* time_slice_enforced; a wait created enforced with remaining_seconds = Q is
\* first published at the Q-th tick after its creation; a wait that is not
\* enforced is not published.
IsTick == tm'.tick_counter = tm.tick_counter + 1

ExpiredPublished(t, state) ==
    \E i \in 1..Len(t.published) :
        /\ t.published[i].event_type = "TIME_SLICE_EXPIRED"
        /\ t.published[i].timer_id = state.timer_id
        /\ t.published[i].room_id = state.room_id
        /\ t.published[i].speed = state.speed

WaitTimers(t) == {i \in 1..Len(t.timers) : t.timers[i].timer_type = "WAIT"}

ExpiryRule ==
    \A i \in WaitTimers(tm') :
        /\ ExpiredPublished(tm', tm'.timers[i])
               <=> (tm'.timers[i].remaining_seconds = 0 /\ tm'.timers[i].time_slice_enforced)
        /\ tm'.timers[i].room_id = Enforced =>
               /\ ExpiredPublished(tm', tm'.timers[i])
                      => tm'.timers[i].elapsed_seconds >= WaitSeconds
               /\ tm'.timers[i].elapsed_seconds = WaitSeconds
                      => ExpiredPublished(tm', tm'.timers[i])
        /\ ~tm'.timers[i].time_slice_enforced => ~ExpiredPublished(tm', tm'.timers[i])

OnlyWaitsExpire ==
    \A k \in 1..Len(tm'.published) :
        tm'.published[k].event_type = "TIME_SLICE_EXPIRED" =>
            \E i \in WaitTimers(tm') : tm'.timers[i].timer_id = tm'.published[k].timer_id

C19_TimeSliceExpiry == [][IsTick => (ExpiryRule /\ OnlyWaitsExpire)]_vars

\* the wait created enforced, published at its WaitSeconds-th tick, next to a
\* wait that is not enforced and not published
C19_Witness ==
    /\ \E i \in WaitTimers(tm) :
           /\ tm.timers[i].room_id = Enforced
           /\ tm.timers[i].elapsed_seconds = WaitSeconds
           /\ ExpiredPublished(tm, tm.timers[i])
    /\ \E i \in WaitTimers(tm) :
           /\ ~tm.timers[i].time_slice_enforced
           /\ tm.timers[i].elapsed_seconds = WaitSeconds
           /\ tm.timers[i].remaining_seconds = 0
           /\ ~ExpiredPublished(tm, tm.timers[i])

\* a wait created without the time slice enforced, enforced by a tick because
\* a room is served at its speed, and published at a later tick
PromotedWaitExpires ==
    \E i \in WaitTimers(tm) :
        /\ tm.timers[i].room_id # Enforced
        /\ tm.timers[i].time_slice_enforced
        /\ ExpiredPublished(tm, tm.timers[i])

\* C20: a tick is one logical second whatever the tick interval: it adds
\* exactly 1 to tick_counter and to the elapsed_seconds of every timer, and
\* nothing else changes either; tick_counter never decreases, and a change of
\* the tick interval leaves it and the timers as they are.
Elapses(k) ==
    /\ Len(tm'.timers) = Len(tm.timers)
    /\ \A i \in 1..Len(tm.timers) :
           /\ tm'.timers[i].timer_id = tm.timers[i].timer_id
           /\ tm'.timers[i].elapsed_seconds = tm.timers[i].elapsed_seconds + k

SameSeconds ==
    \A i \in 1..Len(tm.timers) : \A j \in 1..Len(tm'.timers) :
        tm'.timers[j].timer_id = tm.timers[i].timer_id
            => tm'.timers[j].elapsed_seconds = tm.timers[i].elapsed_seconds

C20_OneSecondPerTick ==
    [][/\ tm'.tick_counter \in {tm.tick_counter, tm.tick_counter + 1}
       /\ IsTick => Elapses(1)
       /\ ~IsTick => SameSeconds
       /\ tm'.tick_interval # tm.tick_interval =>
              (tm'.tick_counter = tm.tick_counter /\ tm'.timers = tm.timers)]_vars

\* two ticks at the shorter tick interval behind a timer
C20_Witness ==
    /\ tm.tick_interval = 10
    /\ tm.tick_counter = 2
    /\ \E i \in 1..Len(tm.timers) : tm.timers[i].elapsed_seconds = 2
    /\ \E i \in 1..Len(tm.timers) : tm.timers[i].elapsed_seconds = 1

\* C21: in every reachable state of the timer registry (after any sequence of
\* create_service_timer, create_wait_timer, create_accommodation_timer,
\* restore_timer, cancel_timer and tick) each room has at most one SERVICE
\* timer, at most one WAIT timer and at most one ACCOMMODATION timer.
TimersOfType(r, k) ==
    {i \in 1..Len(tm.timers) : tm.timers[i].room_id = r /\ tm.timers[i].timer_type = k}

C21_OneTimerPerType ==
    \A r \in Rooms : \A k \in SingleTypes : Cardinality(TimersOfType(r, k)) <= 1

\* a restored SERVICE timer stands next to the one the room had
RestoredNextToCreated ==
    \E i, j \in TimersOfType(Tenant, "SERVICE") :
        /\ tm.timers[i].timer_id \notin PersistedIds
        /\ tm.timers[j].timer_id \in PersistedIds

\* after a restore and a cancel, two created timers of one type
TwoCreatedTimers ==
    \E i, j \in TimersOfType(Tenant, "SERVICE") :
        /\ i # j
        /\ tm.timers[i].timer_id \notin PersistedIds
        /\ tm.timers[j].timer_id \notin PersistedIds

\* with no restore_timer among the calls the registry keeps to one timer per
\* room and type
OneTimerPerTypeOfCreated ==
    \A r \in Rooms : \A k \in SingleTypes :
        /\ Cardinality(TimersOfType(r, k)) <= 1
        /\ \A i \in TimersOfType(r, k) : tm.room_to_timer[r][k] = tm.timers[i].timer_id

\* C22: publishing an event never blocks and always ends with the new event
\* enqueued: if the bounded queue is full, exactly the oldest queued event is
\* dropped to make room, and the queue length never exceeds its bound.
\* a step in which a publish call returns, and the event it was given
Returns ==
    /\ bus'.op \in {"publish", "publish_sync"}
    /\ bus'.returned \in {"True", "False", "None"}
    /\ bus' # bus

Published ==
    IF bus.retrying # <<>> /\ bus'.retrying = <<>> THEN Head(bus.retrying)
    ELSE IF Len(bus'.putters) < Len(bus.putters) THEN Head(bus.putters)
    ELSE BusEvent(bus, bus'.queue[Len(bus'.queue)].event_type, Guest)

\* nobody waits to publish
NeverBlocks == bus.putters = <<>>

WithinBound == Len(bus.queue) <= bus.maxsize

Enqueued ==
    /\ bus'.queue # <<>>
    /\ bus'.queue[Len(bus'.queue)] = Published
    /\ \/ ~full(bus) /\ bus'.queue = Append(bus.queue, Published)
       \/ full(bus) /\ bus'.queue = Append(Tail(bus.queue), Published)

C22_PublishIsTotal ==
    /\ [](NeverBlocks /\ WithinBound)
    /\ [][Returns => Enqueued]_vars

\* publish waits on a full queue
PublishBlocked ==
    /\ full(bus)
    /\ bus.putters # <<>>
    /\ bus.op = "publish"

\* publish_sync has returned False and its event is in no queue
PublishSyncLost ==
    /\ bus.op = "publish_sync"
    /\ bus.returned = "False"
    /\ bus.queue = <<>>

\* whatever publishes, the queue stays within its bound
QueueWithinBound == [](WithinBound)

\* a publish_sync that the consumer does not overtake drops the oldest event
\* and enqueues its own
SyncDropsOldest ==
    [][(bus.retrying # <<>> /\ bus'.retrying = <<>> /\ full(bus)) =>
           /\ bus'.returned = "True"
           /\ bus'.queue = Append(Tail(bus.queue), Head(bus.retrying))]_vars

DroppedOldest ==
    /\ bus.op = "publish_sync"
    /\ bus.returned = "True"
    /\ full(bus)
    /\ bus.queue[1].event_id > 1
    /\ bus.queue[Len(bus.queue)].event_id = bus.issued

\* C23: every event dropped from the event bus because the queue was full is
\* counted: an observable dropped-event counter always equals the number of
\* events dropped so far.
\* what the bus lets a caller read: pending_count and is_running
Reported(b) == [pending_count |-> pending_count(b), is_running |-> is_running(b)]

\* a step in which publish_sync takes the oldest event off the queue
Drops ==
    /\ bus.retrying # <<>>
    /\ bus'.retrying = <<>>
    /\ bus.queue # <<>>

\* a counter of dropped events among what the bus reports moves at every drop
C23_DroppedCounted == [][Drops => Reported(bus') # Reported(bus)]_vars

\* a drop leaves the bus as a publish_sync with room would: one event more
\* issued, the queue changed, True returned, and nothing else
DropLeavesNoTrace ==
    [][Drops => bus' = [bus EXCEPT !.queue = Append(Tail(@), Head(bus.retrying)),
                                   !.retrying = <<>>, !.op = "publish_sync",
                                   !.returned = "True"]]_vars

\* two events have been dropped and the bus reports what it did before them
TwoDroppedUnseen ==
    /\ bus.issued = MaxQueue + 2
    /\ bus.queue # <<>>
    /\ bus.queue[1].event_id = 3
    /\ Len(bus.queue) = MaxQueue
    /\ bus.consumer_task = "none"

\* C24: for each consumed event, the handlers registered for its event_type
\* are invoked in registration order, and a handler that raises an exception
\* stops neither the remaining handlers for that event nor the consumer loop,
\* which goes on to deliver all later events.
\* a step in which the consumer takes an event
Consumes ==
    /\ bus.queue # <<>>
    /\ bus'.queue = Tail(bus.queue)
    /\ bus'.retrying = bus.retrying
    /\ bus'.issued = bus.issued

\* a step in which a handler is registered for event type t
Registers(t) == Len(bus'.handlers[t]) > Len(bus.handlers[t])

\* the handlers of a type stand in the order they were registered in
InRegistrationOrder ==
    \A t \in EventTypes :
        \/ bus'.handlers[t] = bus.handlers[t]
        \/ /\ Registers(t)
           /\ SubSeq(bus'.handlers[t], 1, Len(bus.handlers[t])) = bus.handlers[t]

C24_HandlersInOrder ==
    /\ [][InRegistrationOrder]_vars
    /\ [][Consumes => /\ bus'.calls = bus.handlers[Head(bus.queue).event_type]
                      /\ bus'.consumer_task = "running"
                      /\ bus'.handlers = bus.handlers]_vars
    /\ [](bus.running => bus.consumer_task = "running")

\* handlers have raised for an earlier event and for this one, and the handler
\* registered after the raising one has been invoked for this one all the same
C24_Witness ==
    /\ bus.op = "_consume_loop"
    /\ bus.calls = <<"raising", "returning">>
    /\ bus.errors >= 2
    /\ bus.consumer_task = "running"
    /\ bus.queue # <<>>

\* C25: a failure (exception) in one stage of a tick (timer advancement,
\* temperature evolution, throttle application, auto-restart check) does not
\* prevent the remaining stages of that same tick from running: the later
\* stages still execute and the tick counter still advances.
\* a turn of the clock loop, and the stage that raised in it, if any
ClockTurns == now' = now + 1

Failed(stage) == last'.op = stage

\* the auto-restart check has run on the rooms and timers the turn leaves
RestartChecked ==
    \A r \in Rooms :
        (\E i \in 1..Len(tm'.published) :
             /\ tm'.published[i].event_type = "AUTO_RESTART_NEEDED"
             /\ tm'.published[i].room_id = r)
        <=> /\ rooms'[r].status = "OCCUPIED"
            /\ ~rooms'[r].manual_powered_off
            /\ r \notin _get_active_service_rooms(tm')
            /\ r \notin _get_active_wait_rooms(tm')
            /\ Abs(rooms'[r].current_temp - rooms'[r].target_temp)
                   >= temperature.auto_restart_threshold

C25_StagesIsolated ==
    [][ClockTurns =>
           /\ tm'.tick_counter = tm.tick_counter + 1
           /\ ~Failed("_check_auto_restart") => RestartChecked]_vars

\* a tick without failure runs its last stage and counts
WholeTickCounts ==
    [][(ClockTurns /\ Failed("tick")) =>
           (tm'.tick_counter = tm.tick_counter + 1 /\ RestartChecked)]_vars

\* a tick that failed in its temperature stage: not counted, the room that
\* needs a restart not announced
TickCutShort ==
    /\ last.op = "_tick_temperatures"
    /\ tm.tick_counter < now
    /\ tm.published = <<>>
    /\ \E r \in Rooms :
           /\ rooms[r].status = "OCCUPIED"
           /\ r \notin _get_active_service_rooms(tm)
           /\ r \notin _get_active_wait_rooms(tm)
           /\ Abs(rooms[r].current_temp - rooms[r].target_temp)
                  >= temperature.auto_restart_threshold

\* C26: while the tick thread holds the scheduler lock (between acquire_lock
\* and release_lock), an on_new_request issued by another thread does not
\* change any queue; it blocks until the lock is released and then completes
\* (mutual exclusion between tick processing and external scheduler requests,
\* without deadlock).
OneHolder == Cardinality(lock) <= 1

QueuesKept == services' = services /\ waits' = waits

\* a request that has called is in the queues as on_new_request leaves it
Completed ==
    /\ thread.pc = "idle"
    /\ thread.room # NoRoom
    /\ Has(services, thread.room) \/ Has(waits, thread.room)

RequestCanRun ==
    thread.pc = "inside" => Bounded(on_new_request(St, thread.room, thread.speed))

BothVisible ==
    /\ snapshot.room \in snapshot.serving
    /\ snapshot.victim \in snapshot.waiting
    /\ snapshot.victim \notin snapshot.serving

NeitherVisible ==
    /\ snapshot.victim \in snapshot.serving
    /\ snapshot.victim \notin snapshot.waiting
    /\ snapshot.room \notin snapshot.serving

C27_PreemptTransactional ==
    (snapshot.taken /\ snapshot.pc # "idle") => (BothVisible \/ NeitherVisible)

\* the monitor reports nobody serving: the victim removed, the new object not
\* yet assigned
HalfPreemptSeen ==
    /\ snapshot.taken
    /\ snapshot.pc = "enqueued"
    /\ snapshot.serving = {}
    /\ snapshot.victim \in snapshot.waiting

\* the steps of preempt add up to preempt
PreemptInSteps ==
    thread.pc = "preempt" =>
        assign_service(
            preempt_enqueued(preempt_removed(St, thread.objects[1]),
                             thread.objects[1], thread.objects[2]),
            thread.objects[2])
        = preempt(St, thread.objects[1], thread.objects[2])

\* between requests the monitor sees preemptions whole
WholeBetweenRequests ==
    (snapshot.taken /\ snapshot.pc = "idle") =>
        Cardinality(snapshot.serving) <= max_concurrent

\* C28: wait_for_ticks_with_callback(n, fn) runs fn exactly once, on the tick
\* thread, after the n-th tick following the call has completed and before
\* tick n+1 begins; tick n+1 does not begin until fn has returned.
\* a call that has returned has run its callback once, at its n-th tick
RanOnceAtNthTick ==
    \A c \in Callers :
        sync.callers[c].pc = "done" =>
            /\ sync.callers[c].runs = 1
            /\ sync.callers[c].ran_at = sync.callers[c].start + sync.callers[c].count

\* a callback runs inside tick, and not twice
RunsInsideTick ==
    /\ sync.running # NoCaller => sync.tick = "callback"
    /\ \A c \in Callers : sync.callers[c].runs <= 1

\* no tick begins while a callback runs
TickWaitsForCallback ==
    [][sync.running # NoCaller => tm'.tick_counter = tm.tick_counter]_vars

C28_CallbackAfterNthTick ==
    /\ []RanOnceAtNthTick
    /\ []RunsInsideTick
    /\ TickWaitsForCallback

\* two calls wait for the same tick: the callback of the first has left the
\* slot, only the second has run
CallbackOverwritten ==
    \E c, d \in Callers :
        /\ sync.callers[c].pc = "done" /\ sync.callers[c].result = "False"
        /\ sync.callers[c].runs = 0
        /\ sync.callers[d].pc = "done" /\ sync.callers[d].result = "True"
        /\ sync.callers[d].runs = 1

\* one call alone, of count 2: registered between the wake-up and the slot
\* test of its first tick, the callback has run one tick early
CallbackOneTickEarly ==
    /\ sync.callers[1].pc = "done" /\ sync.callers[1].result = "True"
    /\ sync.callers[1].count = 2
    /\ sync.callers[1].ran_at = sync.callers[1].start + 1
    /\ sync.callers[2].pc = "idle"

\* one call alone whose registration falls between two ticks is served as
\* the spec says
AloneBetweenTicks ==
    (/\ sync.callers[1].pc = "done"
     /\ sync.callers[2].pc = "idle"
     /\ sync.callers[1].ran_at # sync.callers[1].start + 1
     /\ sync.callers[1].count = 2)
        => (/\ sync.callers[1].runs = 1
            /\ sync.callers[1].ran_at = sync.callers[1].start + 2
            /\ sync.callers[1].result = "True")

\* C29: in every reachable state a room whose status is VACANT has
\* is_serving = false and no ServiceObject in the ServiceQueue, whatever
\* sequence of check-in, checkout, power_on, change_speed, change_temp and
\* power_off calls was issued for it.
C29_VacantNotServing ==
    \A r \in Rooms :
        rooms[r].status = "VACANT" =>
            (~rooms[r].is_serving /\ ~Has(services, r))

\* change_speed on a room nobody has checked in to: it is served while VACANT
VacantRoomServed ==
    /\ last.op = "change_speed"
    /\ rooms[last.room].status = "VACANT"
    /\ stay[last.room] = 0
    /\ rooms[last.room].is_serving
    /\ Has(services, last.room)

\* a VACANT room that is in a queue was there before the call, unless the call
\* is change_speed
Queued(q, w, r) == Has(q, r) \/ Has(w, r)

VacantOnlyByChangeSpeed ==
    [][last'.op # "change_speed" =>
           \A r \in Rooms :
               (rooms'[r].status = "VACANT" /\ Queued(services', waits', r))
                   => (rooms[r].status = "VACANT" /\ Queued(services, waits, r))]_vars

\* C30: release_service on a room that is not in the ServiceQueue is a no-op:
\* queues, room fields, detail records and timers are all unchanged; in
\* particular a waiting room stays waiting with its wait state intact.
\* release_service gives back the state it is given
ReleaseIdleIsIdentity ==
    \A r \in Rooms : ~Has(services, r) => release_service(St, r) = St

\* a call for a room that is not served changes nothing that is stored
ReleaseIdleStores ==
    [][(last' # last /\ last'.op = "release_service" /\ ~Has(services, last'.room))
           => UNCHANGED stored]_vars

C30_ReleaseIdleNoOp == []ReleaseIdleIsIdentity /\ ReleaseIdleStores

\* release_service has been called for a room that waits while another is
\* served and billed and a timer runs: the room waits as before
C30_Witness ==
    /\ last.op = "release_service"
    /\ Has(waits, last.room)
    /\ ~Has(services, last.room)
    /\ waits[IndexOf(waits, last.room)].wait_seconds > 0
    /\ services # <<>>
    /\ \E r \in Rooms : current[r] # 0
    /\ tm.timers # <<>>

\* C31: power_off is idempotent: two consecutive power_off calls on a room
\* leave exactly the same state as one call (same room fields, same queue
\* membership for every room, same detail records with no extra record closed
\* or created, same timers).
\* in every state, power_off twice gives what power_off once gives
PowerOffTwice ==
    \A r \in {Guest, Neighbour} :
        power_off(power_off(St, r), r) = power_off(St, r)

\* a step that follows a power_off and leaves last as it is (a second
\* power_off of the room, or a call that changes nothing) stores nothing new
PowerOffAgainStores ==
    [][(last.op = "power_off" /\ last' = last) => UNCHANGED stored]_vars

C31_PowerOffIdempotent == []PowerOffTwice /\ PowerOffAgainStores

\* power_off has been called for a room that was served and billed: its record
\* is closed, the other room is in a queue and a timer runs
C31_Witness ==
    /\ last.op = "power_off"
    /\ rooms[last.room].manual_powered_off
    /\ details[last.room] # <<>>
    /\ current[last.room] = 0
    /\ ~Has(services, last.room) /\ ~Has(waits, last.room)
    /\ services # <<>>
    /\ tm.timers # <<>>
    /\ power_off(St, last.room) = St

\* C32: a room released because it reached its target temperature, which
\* stays OCCUPIED and is not manually powered off, and whose initial_temp
\* differs from target_temp by at least auto_restart_threshold (with positive
\* idle drift), eventually drifts far enough that auto-restart fires and the
\* room re-enters the scheduler (serving or waiting) at its last speed.
\* room r is out of the queues at its target, with speed as its last speed
ReleasedAtTarget(r, speed) ==
    /\ rooms[r].status = "OCCUPIED"
    /\ ~rooms[r].manual_powered_off
    /\ ~Has(services, r) /\ ~Has(waits, r)
    /\ rooms[r].current_temp = rooms[r].target_temp
    /\ Abs(rooms[r].initial_temp - rooms[r].target_temp)
           >= temperature.auto_restart_threshold
    /\ temperature.idle_drift > 0
    /\ rooms[r].speed = speed

\* room r is in a queue with an object of that speed
Reentered(r, speed) ==
    \/ Has(services, r) /\ services[IndexOf(services, r)].speed = speed
    \/ Has(waits, r) /\ waits[IndexOf(waits, r)].speed = speed

DriftStarts == \E r \in Rooms : \E speed \in Speeds : ReleasedAtTarget(r, speed)

\* C33: after every operation, ticks included, a room with both a SERVICE
\* timer and a DETAIL timer has the same current_fee on the two
ServiceTimerOf(r) == tm.timers[TimerIndex(tm.timers, tm.room_to_timer[r]["SERVICE"])]

BothTimers(r, i) ==
    /\ tm.room_to_timer[r]["SERVICE"] # 0
    /\ has_timer(tm, tm.room_to_timer[r]["SERVICE"])
    /\ tm.timers[i].timer_type = "DETAIL"
    /\ tm.timers[i].room_id = r

C34_RotationSameSpeed ==
    last.op = "tick_1s" =>
        \A i \in 1..Len(last.ev) :
            last.ev[i].type = "rotate" => rooms[last.ev[i].victim].speed = last.ev[i].speed

\* a tick has rotated a room out for a waiting room of a lower speed, and the
\* faster room waits while the slower one is served
RotatedForSlower ==
    /\ last.op = "tick_1s"
    /\ \E i \in 1..Len(last.ev) :
           /\ last.ev[i].type = "rotate"
           /\ Has(waits, last.ev[i].victim)
           /\ Has(services, last.ev[i].room)
           /\ SPEED_PRIORITY(rooms[last.ev[i].victim].speed) > SPEED_PRIORITY(last.ev[i].speed)

\* C35: after every scheduler operation the ServiceQueue is full or the
\* WaitingQueue is empty
C35_CapacityNotIdle == ~(Len(services) < max_concurrent /\ waits # <<>>)

\* a cancel_request has taken a room out of service and left a room waiting
\* beside the free slot
IdleAfterCancel ==
    /\ last.op = "cancel_request"
    /\ ~Has(services, last.room)
    /\ Len(services) < max_concurrent
    /\ waits # <<>>

\* a slot is idle beside a waiting room only after a cancel_request, and
\* from then on until the next release or tick fills it
IdleOnlyByCancel ==
    [][(Len(services') < max_concurrent /\ waits' # <<>>)
           => \/ last'.op = "cancel_request"
              \/ Len(services) < max_concurrent /\ waits # <<>>]_vars

\* C36: the step after a power_off of a room puts the room into a queue only
\* if it is a power_on or a change_speed of that room
C36_OffStaysOut ==
    [][(last.op = "power_off" /\ ~Queued(services, waits, last.room)
            /\ Queued(services', waits', last.room))
           => (last'.op \in {"power_on", "change_speed"} /\ last'.room = last.room)]_vars

\* a tick has put a room that is manually powered off into a queue
OffRoomRestarted ==
    /\ last.op = "tick_1s"
    /\ \E i \in 1..Len(last.ev) :
           /\ last.ev[i].type = "request"
           /\ rooms[last.ev[i].room].manual_powered_off
           /\ Queued(services, waits, last.ev[i].room)

\* C37: a room that enters the ServiceQueue in a step starts with
\* served_seconds 0
C37_ServedFromZero ==
    [][\A r \in Rooms :
           (~Has(services, r) /\ Has(services', r))
               => services'[IndexOf(services', r)].served_seconds = 0]_vars

\* a room back in service, by promotion from the WaitingQueue, with the
\* seconds it had served before it was taken out
ServedSecondsCarried ==
    /\ last.op \in {"release_service", "tick_1s"}
    /\ \E i \in 1..Len(last.ev) :
           /\ last.ev[i].type = "promote"
           /\ Has(services, last.ev[i].room)
           /\ services[IndexOf(services, last.ev[i].room)].served_seconds > 0

\* C38: on_new_request for a room that is in service leaves the room in
\* service
C38_ServingStaysServing ==
    [][\A r \in Rooms :
           (Has(services, r) /\ last'.op = "on_new_request" /\ last'.room = r /\ last' # last)
               => Has(services', r)]_vars

\* a serving room has asked again and waits, a room that was waiting has
\* its slot
SlotHandedOver ==
    /\ last.op = "on_new_request"
    /\ Has(waits, last.room)
    /\ \E i \in 1..Len(last.ev) :
           /\ last.ev[i].type = "promote"
           /\ Has(services, last.ev[i].room)

\* C39: between scheduler operations a room's is_serving flag is true exactly
\* when the room is in the ServiceQueue
C39_FlagIffServing == \A r \in Rooms : rooms[r].is_serving <=> Has(services, r)

\* the victim of a time-slice rotation waits with is_serving still true
RotatedFlagStale ==
    /\ last.op = "tick_1s"
    /\ \E i \in 1..Len(last.ev) :
           /\ last.ev[i].type = "rotate"
           /\ Has(waits, last.ev[i].victim)
           /\ rooms[last.ev[i].victim].is_serving

\* the flag is never false for a room in the ServiceQueue, and it is false
\* for the victim of a preemption
FlagOfServingAndPreempted ==
    /\ \A r \in Rooms : Has(services, r) => rooms[r].is_serving
    /\ \A i \in 1..Len(last.ev) :
           (last.op = "on_new_request" /\ last.ev[i].path = "preempt"
                /\ Has(waits, last.ev[i].victim))
               => ~rooms[last.ev[i].victim].is_serving

\* C40: no room has waited through Q + 1 ticks while a room of the same speed
\* was served through the same ticks (requests come before the first tick, so
\* the seconds waited and the seconds served are counted over the same ticks)
WaitedBehind(w, s) ==
    /\ s.speed = w.speed
    /\ now = time_slice_seconds + 1
    /\ w.total_waited_seconds = now
    /\ s.served_seconds = now

C40_PromotedInTime ==
    \A i \in 1..Len(waits) : \A j \in 1..Len(services) : ~WaitedBehind(waits[i], services[j])

\* the victim of a preemption still waits, its time slice not enforced,
\* after Q + 1 ticks behind a room of its own speed
VictimStillWaits ==
    \E i \in 1..Len(waits) : \E j \in 1..Len(services) :
        /\ WaitedBehind(waits[i], services[j])
        /\ ~waits[i].time_slice_enforced

\* a room that waits with the time slice not enforced stays so in a tick
NeverEnforcedLater ==
    [][\A r \in Rooms :
           (Has(waits, r) /\ Has(waits', r) /\ last'.op = "tick_1s"
                /\ ~waits[IndexOf(waits, r)].time_slice_enforced
                /\ ~(\E i \in 1..Len(last'.ev) : last'.ev[i].victim = r))
               => ~waits'[IndexOf(waits', r)].time_slice_enforced]_vars
====
